---- MODULE Spec2Model ----
(***************************************************************************)
(* Thermal throttling controller (thermal_throttling.cpp) and the power    *)
(* rail reader (power_files.cpp).                                          *)
(*                                                                         *)
(* Numbers.  The code computes in IEEE float; the model computes in        *)
(* integers (mW, temperature units) and keeps NaN as a value of its own:   *)
(* every comparison with NaN is false and every sum with NaN is NaN, as in *)
(* the code.                                                               *)
(*                                                                         *)
(* Maps.  A std::unordered_map that the code walks with an early           *)
(* return or break is a record [keys, at]: keys is the order in which this *)
(* map object is walked (fixed for the object, unknown to the program),    *)
(* at the key -> value function.  The other maps are plain functions.      *)
(***************************************************************************)
EXTENDS Integers, Sequences, FiniteSets, Bags, TLC

VARIABLES
    thermal_throttling_status_map_,  \* sensor name -> ThermalThrottlingStatus
    cdev_all_request_map_,           \* cdev name -> multiset (bag) of votes
    sensor_info_map,                 \* the callers' SensorInfo per sensor (frozen)
    crashed,                         \* an unchecked .at() / erase(end()) was hit
    last_call,                       \* the handler that ran last and its arguments
    ret,                             \* what the last registerThermalThrottling returned
    cooling_devices_to_update,       \* out-parameter of the last computeCoolingDevicesRequest
    stats_requests,                  \* updateSensorCdevRequestStats calls of the last compute
    env,                             \* the sets the callers' arguments are drawn from (frozen)
    thermal_throttling_status_map_mutex_,  \* shared_mutex: [writer, readers]
    cdev_all_request_map_mutex_,     \* shared_mutex: [writer, readers]
    pc,                              \* where each thread stands in the handler it runs
    frame,                           \* the arguments and locals of the threads' calls
    energy_info_map_,                \* PowerFiles: rail -> the PowerSample last read
    power_status_map_                \* PowerFiles: rail -> PowerStatus

vars == <<thermal_throttling_status_map_, cdev_all_request_map_, sensor_info_map,
          crashed, last_call, ret, cooling_devices_to_update, stats_requests, env,
          thermal_throttling_status_map_mutex_, cdev_all_request_map_mutex_, pc, frame,
          energy_info_map_, power_status_map_>>

\* The state of PowerFiles; the handlers of ThermalThrottling leave it alone.
power_files == <<energy_info_map_, power_status_map_>>

\* What the threads add to the state; the handlers run as one step leave it alone.
threads == <<thermal_throttling_status_map_mutex_, cdev_all_request_map_mutex_, pc, frame>>

-----------------------------------------------------------------------------
(* Values *)

NaN == -2147483647

\* std::numeric_limits<int>::max() and std::numeric_limits<float>::max(): two
\* magnitudes above every quantity of the model, INT_MAX below FLT_MAX as in C++.
INT_MAX == 100000

FLT_MAX == 1000000000

NONE == 0

Severities == 0..6

isnan(x) == x = NaN

EmptyMap == [x \in {} |-> 0]

Put(m, k, v) == [x \in (DOMAIN m) \cup {k} |-> IF x = k THEN v ELSE m[x]]

SetMax(S) == CHOOSE x \in S : \A y \in S : y <= x

Max2(a, b) == IF a >= b THEN a ELSE b

Min2(a, b) == IF a <= b THEN a ELSE b

Abs(x) == IF x < 0 THEN -x ELSE x

Sign(x) == IF x < 0 THEN -1 ELSE 1

\* Float arithmetic: NaN propagates, a magnitude above FLT_MAX saturates,
\* x / 0 is +-FLT_MAX (0 / 0 is NaN) and a quotient is cut towards zero.
Sat(x) == IF x > FLT_MAX THEN FLT_MAX ELSE IF x < -FLT_MAX THEN -FLT_MAX ELSE x

FAdd(a, b) == IF isnan(a) \/ isnan(b) THEN NaN ELSE Sat(a + b)

FSub(a, b) == IF isnan(a) \/ isnan(b) THEN NaN ELSE Sat(a - b)

FMul(a, b) ==
    IF isnan(a) \/ isnan(b) THEN NaN
    ELSE IF a = 0 \/ b = 0 THEN 0
    ELSE IF Abs(a) > FLT_MAX \div Abs(b) THEN Sign(a) * Sign(b) * FLT_MAX
    ELSE a * b

FDiv(a, b) ==
    IF isnan(a) \/ isnan(b) THEN NaN
    ELSE IF b = 0 THEN (IF a = 0 THEN NaN ELSE Sign(a) * FLT_MAX)
    ELSE Sign(a) * Sign(b) * (Abs(a) \div Abs(b))

\* Float comparisons: false as soon as one side is NaN.
FLt(a, b) == ~isnan(a) /\ ~isnan(b) /\ a < b

FLe(a, b) == ~isnan(a) /\ ~isnan(b) /\ a <= b

FGt(a, b) == FLt(b, a)

FGe(a, b) == FLe(b, a)

\* std::max(a, b) is (a < b) ? b : a, std::min(a, b) is (b < a) ? b : a.
FMax(a, b) == IF FLt(a, b) THEN b ELSE a

FMin(a, b) == IF FLt(b, a) THEN b ELSE a

\* std::clamp(v, lo, hi) is (v < lo) ? lo : (hi < v) ? hi : v.
FClamp(v, lo, hi) == IF FLt(v, lo) THEN lo ELSE IF FLt(hi, v) THEN hi ELSE v

\* A per-severity table, written in severity order NONE..SHUTDOWN.
Arr(a0, a1, a2, a3, a4, a5, a6) ==
    [i \in Severities |-> <<a0, a1, a2, a3, a4, a5, a6>>[i + 1]]

ArrAll(a) == [i \in Severities |-> a]

Range(seq) == {seq[i] : i \in 1..Len(seq)}

Perms(S) == {q \in [1..Cardinality(S) -> S] : Range(q) = S}

-----------------------------------------------------------------------------
(* The vote registry: cdev_all_request_map_ *)

\* The multiset is declared greatest-first, so *begin() is the largest vote:
\* the code names the value it reads there cur_max_request / new_max_request.
RequestSetBegin(request_set) == SetMax(BagToSet(request_set))

RequestSetInsert(request_set, v) == request_set (+) SetToBag({v})

\* A registry whose erase leaves the old vote in place.
RequestSetEraseNone(request_set, v) == request_set

\* request_set.erase(v): every element equal to v.
RequestSetEraseAll(request_set, v) ==
    [x \in DOMAIN request_set \ {v} |-> request_set[x]]

\* request_set.erase(request_set.find(v)): one element equal to v.
RequestSetEraseOne(request_set, v) == request_set (-) SetToBag({v})

RegistryInsert(reg, c, v) ==
    IF c \in DOMAIN reg THEN [reg EXCEPT ![c] = RequestSetInsert(@, v)]
    ELSE Put(reg, c, SetToBag({v}))

\* getCdevMaxRequest: [ok, max_state]; ok is false for an unknown cdev.
getCdevMaxRequest(reg, c) ==
    IF c \notin DOMAIN reg THEN [ok |-> FALSE, max_state |-> 0]
    ELSE [ok |-> TRUE, max_state |-> RequestSetBegin(reg[c])]

\* A registry that reports every vote it replaces as a change of the maximum.
NotifyOnAnyVoteChange(request_set, cur_request, new_request) ==
    [request_set |->
         RequestSetInsert(RequestSetEraseOne(request_set, cur_request), new_request),
     changed |-> TRUE,
     ub |-> ~BagIn(cur_request, request_set)]

\* updateCdevMaxRequestAndNotifyIfChange: the new multiset and the returned flag.
\* ub: cur_request is not in the multiset, erase(end()) is undefined.
updateCdevMaxRequestAndNotifyIfChange(request_set, cur_request, new_request) ==
    LET cur_max_request == RequestSetBegin(request_set)
        erased == RequestSetEraseOne(request_set, cur_request)
        inserted == RequestSetInsert(erased, new_request)
        new_max_request == RequestSetBegin(inserted)
    IN  [request_set |-> inserted,
         changed |-> new_max_request # cur_max_request,
         ub |-> ~BagIn(cur_request, request_set)]

-----------------------------------------------------------------------------
(* registerThermalThrottling *)

InitialStatus ==
    [prev_err |-> NaN, i_budget |-> NaN, prev_target |-> NONE,
     prev_power_budget |-> NaN, tran_cycle |-> 0, budget_transient |-> 0,
     profile |-> "",
     pid_power_budget_map |-> EmptyMap, pid_cdev_request_map |-> EmptyMap,
     hardlimit_cdev_request_map |-> EmptyMap, throttling_release_map |-> EmptyMap,
     cdev_status_map |-> EmptyMap]

HasPidWeight(b) == \E sev \in Severities : ~isnan(b.cdev_weight_for_pid[sev])

HasHardLimit(b) == \E sev \in Severities : b.limit_info[sev] > 0

HasPowerThreshold(b) ==
    b.power_rail # "" /\ \E sev \in Severities : ~isnan(b.power_thresholds[sev])

\* A registration that gives a cdev with a power threshold a cdev_status_map entry.
RegisterCdevStatusForThreshold(st, reg, c, b) ==
    LET pid == \E sev \in Severities : ~isnan(b.cdev_weight_for_pid[sev])
        hard == \E sev \in Severities : b.limit_info[sev] > 0
        power == b.power_rail # ""
                 /\ \E sev \in Severities : ~isnan(b.power_thresholds[sev])
        votes == (IF pid THEN 1 ELSE 0) + (IF hard THEN 1 ELSE 0)
    IN  [st |-> [st EXCEPT
                    !.pid_power_budget_map = IF pid THEN Put(@, c, INT_MAX) ELSE @,
                    !.pid_cdev_request_map = IF pid THEN Put(@, c, 0) ELSE @,
                    !.hardlimit_cdev_request_map = IF hard THEN Put(@, c, 0) ELSE @,
                    !.throttling_release_map = IF power THEN Put(@, c, 0) ELSE @,
                    !.cdev_status_map =
                        IF pid \/ hard \/ power THEN Put(@, c, 0) ELSE @],
         reg |-> IF votes = 0 THEN reg
                 ELSE IF votes = 1 THEN RegistryInsert(reg, c, 0)
                 ELSE RegistryInsert(RegistryInsert(reg, c, 0), c, 0)]

\* The body of the loop over binded_cdev_info_map for one known cdev c.
RegisterCdev(st, reg, c, b) ==
    LET st1 == IF HasPidWeight(b)
               THEN [st EXCEPT !.pid_power_budget_map = Put(@, c, INT_MAX),
                               !.pid_cdev_request_map = Put(@, c, 0),
                               !.cdev_status_map = Put(@, c, 0)]
               ELSE st
        reg1 == IF HasPidWeight(b) THEN RegistryInsert(reg, c, 0) ELSE reg
        st2 == IF HasHardLimit(b)
               THEN [st1 EXCEPT !.hardlimit_cdev_request_map = Put(@, c, 0),
                                !.cdev_status_map = Put(@, c, 0)]
               ELSE st1
        reg2 == IF HasHardLimit(b) THEN RegistryInsert(reg1, c, 0) ELSE reg1
        st3 == IF HasPowerThreshold(b)
               THEN [st2 EXCEPT !.throttling_release_map = Put(@, c, 0)]
               ELSE st2
    IN  [st |-> st3, reg |-> reg2]

\* The loop, from position i of the walk: it returns false at the first cdev that
\* cooling_device_info_map does not hold, keeping what the earlier cdevs wrote.
RECURSIVE RegisterLoop(_, _, _, _, _)
RegisterLoop(st, reg, bmap, cdevs, i) ==
    IF i > Len(bmap.keys) THEN [ok |-> TRUE, st |-> st, reg |-> reg]
    ELSE LET c == bmap.keys[i] IN
         IF c \notin cdevs THEN [ok |-> FALSE, st |-> st, reg |-> reg]
         ELSE LET r == RegisterCdev(st, reg, c, bmap.at[c])
              IN  RegisterLoop(r.st, r.reg, bmap, cdevs, i + 1)

-----------------------------------------------------------------------------
(* clearThrottlingData *)

\* A clear that leaves the integral term as it was.
ClearKeepsIBudget(st) ==
    [st EXCEPT
        !.pid_power_budget_map = [c \in DOMAIN @ |-> INT_MAX],
        !.pid_cdev_request_map = [c \in DOMAIN @ |-> 0],
        !.hardlimit_cdev_request_map = [c \in DOMAIN @ |-> 0],
        !.throttling_release_map = [c \in DOMAIN @ |-> 0],
        !.prev_err = NaN,
        !.prev_target = NONE,
        !.prev_power_budget = NaN,
        !.tran_cycle = 0]

\* A clear that leaves the hard-limit requests as they were.
ClearKeepsHardLimit(st) ==
    [st EXCEPT
        !.pid_power_budget_map = [c \in DOMAIN @ |-> INT_MAX],
        !.pid_cdev_request_map = [c \in DOMAIN @ |-> 0],
        !.throttling_release_map = [c \in DOMAIN @ |-> 0],
        !.prev_err = NaN,
        !.i_budget = NaN,
        !.prev_target = NONE,
        !.prev_power_budget = NaN,
        !.tran_cycle = 0]

clearThrottlingData(st) ==
    [st EXCEPT
        !.pid_power_budget_map = [c \in DOMAIN @ |-> INT_MAX],
        !.pid_cdev_request_map = [c \in DOMAIN @ |-> 0],
        !.hardlimit_cdev_request_map = [c \in DOMAIN @ |-> 0],
        !.throttling_release_map = [c \in DOMAIN @ |-> 0],
        !.prev_err = NaN,
        !.i_budget = NaN,
        !.prev_target = NONE,
        !.prev_power_budget = NaN,
        !.tran_cycle = 0]

-----------------------------------------------------------------------------
(* parseProfileProperty *)

\* A profile selection that would also restart the PID state of the sensor.
ParseProfileResetsPid(st, si, profile) ==
    [st EXCEPT !.profile = IF profile = "" \/ profile \in DOMAIN si.throttling_info.profile_map
                           THEN profile ELSE "",
               !.prev_err = NaN, !.i_budget = NaN, !.prev_target = NONE]

\* profile is the value GetProperty returned for vendor.thermal.<sensor>.profile.
parseProfileProperty(st, si, profile) ==
    IF profile = "" \/ profile \in DOMAIN si.throttling_info.profile_map
    THEN (IF profile # st.profile THEN [st EXCEPT !.profile = profile] ELSE st)
    ELSE [st EXCEPT !.profile = ""]

\* The binding a tick works on: the active profile's when profile_map holds it.
ActiveBinding(ti, profile) ==
    IF profile \in DOMAIN ti.profile_map THEN ti.profile_map[profile]
    ELSE ti.binded_cdev_info_map

-----------------------------------------------------------------------------
(* getTargetStateOfPID and updatePowerBudget *)

\* A target state that never passes the current severity while a severity at or
\* below it has a table.
HighestAtOrBelow(s_power, curr_severity) ==
    LET below == {v \in Severities : v <= curr_severity /\ ~isnan(s_power[v])}
        above == {v \in Severities : v > curr_severity /\ ~isnan(s_power[v])}
    IN  IF below # {} THEN SetMax(below)
        ELSE IF above # {} THEN CHOOSE v \in above : \A w \in above : v <= w
        ELSE 0

RECURSIVE TargetStateLoop(_, _, _, _)
TargetStateLoop(s_power, curr_severity, severity, target_state) ==
    IF severity \notin Severities THEN target_state
    ELSE IF isnan(s_power[severity])
         THEN TargetStateLoop(s_power, curr_severity, severity + 1, target_state)
    ELSE IF severity > curr_severity THEN severity
    ELSE TargetStateLoop(s_power, curr_severity, severity + 1, severity)

getTargetStateOfPID(s_power, curr_severity) ==
    TargetStateLoop(s_power, curr_severity, 0, 0)

\* default_i_budget: the sum over the default binding of state2power[max_cdev_vote],
\* where max_cdev_vote is assigned the bool that getCdevMaxRequest returns.
RECURSIVE DefaultIBudget(_, _, _, _)
DefaultIBudget(bmap, reg, cdevs, i) ==
    IF i > Len(bmap.keys) THEN 0
    ELSE LET c == bmap.keys[i]
             max_cdev_vote == IF getCdevMaxRequest(reg, c).ok THEN 1 ELSE 0
         IN  FAdd(cdevs[c].state2power[max_cdev_vote],
                  DefaultIBudget(bmap, reg, cdevs, i + 1))

RECURSIVE Compensation(_, _, _, _, _)
Compensation(prediction_weights, sensor_predictions, multiplier, target, i) ==
    IF i > Len(sensor_predictions) THEN 0
    ELSE FAdd(FMul(prediction_weights[i],
                   FSub(target, FMul(sensor_predictions[i], multiplier))),
              Compensation(prediction_weights, sensor_predictions, multiplier,
                           target, i + 1))

\* An integral term that is accumulated and never held within +-i_max.
IBudgetUnheld(ts, ti, target_state, err, i0, is_fully_release, is_fully_throttle) ==
    IF FLt(err, ti.i_cutoff[target_state])
    THEN (IF /\ FLt(err, 0)
             /\ FGt(ts.prev_power_budget, ti.min_alloc_power[target_state])
             /\ ~is_fully_throttle
          THEN FAdd(i0, FMul(err, ti.k_io[target_state]))
          ELSE IF /\ FGt(err, 0)
                  /\ FLt(ts.prev_power_budget, ti.max_alloc_power[target_state])
                  /\ ~is_fully_release
          THEN FAdd(i0, FMul(err, ti.k_iu[target_state]))
          ELSE i0)
    ELSE i0

\* An integral term that accumulates a negative error whatever the last budget
\* and the requests are.
IBudgetWindup(ts, ti, target_state, err, i0, is_fully_release, is_fully_throttle) ==
    LET i1 == IF FLt(err, ti.i_cutoff[target_state])
              THEN (IF FLt(err, 0)
                    THEN FAdd(i0, FMul(err, ti.k_io[target_state]))
                    ELSE IF /\ FGt(err, 0)
                            /\ FLt(ts.prev_power_budget, ti.max_alloc_power[target_state])
                            /\ ~is_fully_release
                    THEN FAdd(i0, FMul(err, ti.k_iu[target_state]))
                    ELSE i0)
              ELSE i0
    IN  IF ~isnan(i1) /\ FGt(Abs(i1), ti.i_max[target_state])
        THEN FMul(ti.i_max[target_state], IF FGt(i1, 0) THEN 1 ELSE -1)
        ELSE i1

\* The integral term of this tick: i0 is last tick's (or the default), moved by
\* the error when below the cutoff and not wound up, then held within +-i_max.
IBudget(ts, ti, target_state, err, i0, is_fully_release, is_fully_throttle) ==
    LET i1 == IF FLt(err, ti.i_cutoff[target_state])
              THEN (IF /\ FLt(err, 0)
                       /\ FGt(ts.prev_power_budget, ti.min_alloc_power[target_state])
                       /\ ~is_fully_throttle
                    THEN FAdd(i0, FMul(err, ti.k_io[target_state]))
                    ELSE IF /\ FGt(err, 0)
                            /\ FLt(ts.prev_power_budget, ti.max_alloc_power[target_state])
                            /\ ~is_fully_release
                    THEN FAdd(i0, FMul(err, ti.k_iu[target_state]))
                    ELSE i0)
              ELSE i0
    IN  IF ~isnan(i1) /\ FGt(Abs(i1), ti.i_max[target_state])
        THEN FMul(ti.i_max[target_state], IF FGt(i1, 0) THEN 1 ELSE -1)
        ELSE i1

\* A derivative term that divides by the elapsed time without looking at it.
DBudgetUnguarded(ti, target_state, err, prev_err, time_elapsed_ms) ==
    IF ~isnan(prev_err)
    THEN FDiv(FMul(ti.k_d[target_state], FSub(err, prev_err)), time_elapsed_ms)
    ELSE 0

\* The derivative term: 0 on the first tick and when no time has elapsed.
DBudget(ti, target_state, err, prev_err, time_elapsed_ms) ==
    IF ~isnan(prev_err) /\ time_elapsed_ms # 0
    THEN FDiv(FMul(ti.k_d[target_state], FSub(err, prev_err)), time_elapsed_ms)
    ELSE 0

\* A smoothing whose first tick adds the whole budget_transient.
PidBudgetFullFirst(ts1, ti, target_state, target_changed, err, p, i_budget, d, compensation) ==
    LET clamped ==
            FClamp(FAdd(FAdd(FAdd(FAdd(ti.s_power[target_state], p), i_budget), d),
                        compensation),
                   ti.min_alloc_power[target_state], ti.max_alloc_power[target_state])
        budget_transient == IF target_changed
                            THEN FSub(ts1.prev_power_budget, clamped)
                            ELSE ts1.budget_transient
        power_budget ==
            IF ts1.tran_cycle # 0
            THEN FAdd(clamped,
                      FDiv(FMul(budget_transient, ts1.tran_cycle + 1), ti.tran_cycle))
            ELSE clamped
    IN  [st |-> [ts1 EXCEPT !.i_budget = i_budget,
                            !.prev_err = err,
                            !.budget_transient = budget_transient,
                            !.tran_cycle = IF @ # 0 THEN @ - 1 ELSE @,
                            !.prev_power_budget = power_budget],
         power_budget |-> power_budget,
         crash |-> FALSE]

\* The sum of the terms, its clamp, the transient smoothing and the stores that
\* end updatePowerBudget.  ts1 already holds the tick's tran_cycle and prev_target.
PidBudget(ts1, ti, target_state, target_changed, err, p, i_budget, d, compensation) ==
    LET clamped ==
            FClamp(FAdd(FAdd(FAdd(FAdd(ti.s_power[target_state], p), i_budget), d),
                        compensation),
                   ti.min_alloc_power[target_state], ti.max_alloc_power[target_state])
        budget_transient == IF target_changed
                            THEN FSub(ts1.prev_power_budget, clamped)
                            ELSE ts1.budget_transient
        power_budget ==
            IF ts1.tran_cycle # 0
            THEN FAdd(clamped,
                      FDiv(FMul(budget_transient, ts1.tran_cycle), ti.tran_cycle))
            ELSE clamped
    IN  [st |-> [ts1 EXCEPT !.i_budget = i_budget,
                            !.prev_err = err,
                            !.budget_transient = budget_transient,
                            !.tran_cycle = IF @ # 0 THEN @ - 1 ELSE @,
                            !.prev_power_budget = power_budget],
         power_budget |-> power_budget,
         crash |-> FALSE]

\* A pre-check that lets the PID run at every severity.
BudgetingAlways(curr_severity) == FALSE

\* The pre-check of updatePowerBudget: at NONE it returns FLT_MAX and runs no PID.
NoBudgeting(curr_severity) == curr_severity = NONE

\* [st, power_budget, crash]: the status after the call, the returned budget, and
\* whether an .at() met a missing key.
updatePowerBudget(ts, reg, temp_value, si, cdevs, time_elapsed_ms, curr_severity, max_throttling, sensor_predictions) ==
    LET ti == si.throttling_info
        bmap == ActiveBinding(ti, ts.profile)
        bound == Range(bmap.keys)
        sev == curr_severity
    IN
    IF NoBudgeting(curr_severity)
    THEN [st |-> ts, power_budget |-> FLT_MAX, crash |-> FALSE]
    ELSE IF \E c \in bound : c \notin DOMAIN ts.pid_cdev_request_map
    THEN [st |-> ts, power_budget |-> NaN, crash |-> TRUE]
    ELSE
    LET target_state == getTargetStateOfPID(ti.s_power, curr_severity)
        target_changed ==
            /\ ts.prev_target # NONE
            /\ target_state # ts.prev_target
            /\ ti.tran_cycle > 0
        target == si.hot_thresholds[target_state]
        err == FSub(target, temp_value)
        ts1 == [ts EXCEPT
                   !.tran_cycle = IF target_changed THEN ti.tran_cycle - 1 ELSE @,
                   !.prev_target = target_state]
    IN
    IF max_throttling /\ FLe(err, 0)
    THEN [st |-> ts1, power_budget |-> ti.min_alloc_power[target_state],
          crash |-> FALSE]
    ELSE IF isnan(ts.i_budget) /\ ~isnan(ti.i_default_pct)
            /\ \E c \in Range(ti.binded_cdev_info_map.keys) : c \notin DOMAIN cdevs
    THEN [st |-> ts1, power_budget |-> NaN, crash |-> TRUE]
    ELSE
    PidBudget(
        ts1, ti, target_state, target_changed, err,
        FMul(err, IF FLt(err, 0) THEN ti.k_po[target_state] ELSE ti.k_pu[target_state]),
        IBudget(ts, ti, target_state, err,
                IF isnan(ts.i_budget)
                THEN (IF isnan(ti.i_default_pct) THEN ti.i_default
                      ELSE FDiv(FMul(DefaultIBudget(ti.binded_cdev_info_map, reg,
                                                    cdevs, 1),
                                     ti.i_default_pct), 100))
                ELSE ts.i_budget,
                ~\E c \in bound :
                    ts.pid_cdev_request_map[c] > bmap.at[c].limit_info[sev],
                ~\E c \in bound :
                    ts.pid_cdev_request_map[c] < bmap.at[c].cdev_ceiling[sev]),
        DBudget(ti, target_state, err, ts.prev_err, time_elapsed_ms),
        IF si.predictor_info.present /\ si.predictor_info.support_pid_compensation
        THEN FMul(Compensation(si.predictor_info.prediction_weights,
                               sensor_predictions, si.multiplier, target, 1),
                  si.predictor_info.k_p_compensate[target_state])
        ELSE 0)

-----------------------------------------------------------------------------
(* allocatePowerToCdev *)

INT_MIN == -INT_MAX - 1

\* int -> float: INT_MAX has no float of its own and rounds up to 2^31.
I2F(x) == IF x = INT_MAX THEN INT_MAX + 1 ELSE x

\* float -> int, as in "int += float" and in the store into the int-valued
\* pid_power_budget_map.  Out of range or NaN is undefined in C++: the
\* conversion instruction saturates (NaN gives 0) on arm64 and gives INT_MIN
\* on x86_64.
F2I(x, fp_to_int) ==
    IF isnan(x) THEN (IF fp_to_int = "saturate" THEN 0 ELSE INT_MIN)
    ELSE IF x > INT_MAX THEN (IF fp_to_int = "saturate" THEN INT_MAX ELSE INT_MIN)
    ELSE IF x < INT_MIN THEN INT_MIN
    ELSE x

\* total_power_budget * (cdev_weight / total_weight)
Share(total_power_budget, cdev_weight, total_weight) ==
    IF isnan(total_power_budget) \/ isnan(cdev_weight) \/ isnan(total_weight) THEN NaN
    ELSE IF total_weight = 0
         THEN (IF cdev_weight = 0 \/ total_power_budget = 0 THEN NaN
               ELSE Sign(cdev_weight) * Sign(total_power_budget) * FLT_MAX)
    ELSE FDiv(FMul(total_power_budget, cdev_weight), total_weight)

\* The walk over the binding that sums the weights and pre-inserts the
\* NaN- and zero-weight cdevs of enabled bindings into allocated_cdev.
RECURSIVE TotalWeightLoop(_, _, _, _)
TotalWeightLoop(bmap, sev, i, acc) ==
    IF i > Len(bmap.keys) THEN acc
    ELSE LET c == bmap.keys[i]
             b == bmap.at[c]
             cdev_weight == b.cdev_weight_for_pid[sev]
         IN  IF ~b.enabled THEN TotalWeightLoop(bmap, sev, i + 1, acc)
             ELSE IF isnan(cdev_weight) \/ cdev_weight = 0
             THEN TotalWeightLoop(bmap, sev, i + 1,
                      [acc EXCEPT !.allocated_cdev = @ \cup {c}])
             ELSE TotalWeightLoop(bmap, sev, i + 1,
                      [acc EXCEPT !.total_weight = FAdd(@, cdev_weight)])

\* while ((curr_cdev_vote - step) > limit && state2power[curr - step] == state2power[curr])
RECURSIVE ReleaseStep(_, _, _, _)
ReleaseStep(state2power, curr_cdev_vote, limit, step) ==
    IF /\ (curr_cdev_vote - step) > limit
       /\ state2power[curr_cdev_vote - step] = state2power[curr_cdev_vote]
       /\ ~isnan(state2power[curr_cdev_vote])
    THEN ReleaseStep(state2power, curr_cdev_vote, limit, step + 1)
    ELSE step

\* while ((curr_cdev_vote + step) < ceiling && state2power[curr + step] == state2power[curr])
RECURSIVE ThrottleStep(_, _, _, _)
ThrottleStep(state2power, curr_cdev_vote, ceiling, step) ==
    IF /\ (curr_cdev_vote + step) < ceiling
       /\ state2power[curr_cdev_vote + step] = state2power[curr_cdev_vote]
       /\ ~isnan(state2power[curr_cdev_vote])
    THEN ThrottleStep(state2power, curr_cdev_vote, ceiling, step + 1)
    ELSE step

\* The second pass's budget of one cdev, after the test for "no space to
\* reduce power": [budget, fail].  x is the walk's state, k the call's arguments.
CdevPowerBudget(x, k, c, b, cdev_power_adjustment) ==
    LET cdev_info == k.cdevs[c]
        sev == k.sev
        cdev_weight == b.cdev_weight_for_pid[sev]
        cdev_curr_power_budget == x.pid_power_budget_map[c]
        updated ==
            IF FGt(x.last_updated_avg_power, I2F(cdev_curr_power_budget))
            THEN F2I(FAdd(I2F(cdev_curr_power_budget),
                          FDiv(FMul(cdev_power_adjustment, I2F(cdev_curr_power_budget)),
                               x.last_updated_avg_power)), k.fp_to_int)
            ELSE F2I(FAdd(I2F(cdev_curr_power_budget), cdev_power_adjustment),
                     k.fp_to_int)
        b0 == IF ~b.enabled THEN cdev_info.state2power[0]
              ELSE IF ~x.power_data_invalid /\ b.power_rail # "" THEN I2F(updated)
              ELSE Share(x.total_power_budget, cdev_weight, x.total_weight)
        b1 == IF ~isnan(cdev_info.state2power[0]) /\ FGt(b0, cdev_info.state2power[0])
              THEN cdev_info.state2power[0]
              ELSE IF FLt(b0, 0) THEN 0
              ELSE b0
        max_cdev_vote == getCdevMaxRequest(k.reg, c)
        curr_cdev_vote == k.pid_cdev_request_map[c]
        b2 == IF /\ b.max_release_step # INT_MAX
                 /\ (x.power_data_invalid \/ FGt(cdev_power_adjustment, 0))
              THEN (IF ~x.power_data_invalid /\ curr_cdev_vote < max_cdev_vote.max_state
                    THEN cdev_info.state2power[curr_cdev_vote]
                    ELSE LET target_release_step ==
                                 ReleaseStep(cdev_info.state2power, curr_cdev_vote,
                                             b.limit_info[sev], b.max_release_step)
                             target_state ==
                                 Max2(curr_cdev_vote - target_release_step, 0)
                         IN  FMin(b1, cdev_info.state2power[target_state]))
              ELSE b1
        b3 == IF /\ b.max_throttle_step # INT_MAX
                 /\ (x.power_data_invalid \/ FLt(cdev_power_adjustment, 0))
              THEN LET target_throttle_step ==
                           ThrottleStep(cdev_info.state2power, curr_cdev_vote,
                                        b.cdev_ceiling[sev], b.max_throttle_step)
                       target_state ==
                           Min2(curr_cdev_vote + target_throttle_step,
                                b.cdev_ceiling[sev])
                   IN  FMax(b2, cdev_info.state2power[target_state])
              ELSE b2
    IN  [budget |-> F2I(IF k.max_throttling THEN b1 ELSE b3, k.fp_to_int),
         fail |-> ~max_cdev_vote.ok]

\* One turn of the for loop: the walk's state after it.  stop is "" to go on,
\* "break" (power data invalid), "false" (the call returns false) or "crash".
AllocStep(x, k, c, b, low_power_device_check) ==
    LET sev == k.sev
        cdev_weight == b.cdev_weight_for_pid[sev]
        rail_missing == ~x.power_data_invalid /\ b.power_rail # ""
                        /\ b.power_rail \notin DOMAIN k.power_status_map
        read == IF ~x.power_data_invalid /\ b.power_rail # "" /\ ~rail_missing
                THEN k.power_status_map[b.power_rail]
                ELSE x.last_updated_avg_power
        x1 == [x EXCEPT !.last_updated_avg_power = read]
        cdev_power_budget == Share(x.total_power_budget, cdev_weight, x.total_weight)
        cdev_power_adjustment == FSub(cdev_power_budget, read)
    IN
    IF c \in x.allocated_cdev THEN x
    ELSE IF rail_missing THEN [x EXCEPT !.stop = "crash"]
    ELSE IF ~x.power_data_invalid /\ (b.power_rail = "" \/ isnan(read))
    THEN [x1 EXCEPT !.power_data_invalid = TRUE, !.stop = "break"]
    ELSE IF ~x.power_data_invalid /\ b.throttling_with_power_link
    THEN [x1 EXCEPT !.stop = "false"]
    ELSE IF low_power_device_check
    THEN (IF ~FGt(cdev_power_adjustment, 0) THEN x1
          ELSE IF c \notin DOMAIN k.pid_cdev_request_map
          THEN [x1 EXCEPT !.stop = "crash"]
          ELSE IF k.pid_cdev_request_map[c] = 0
          THEN [x1 EXCEPT !.allocated_power = FAdd(@, read),
                          !.allocated_weight = FAdd(@, cdev_weight),
                          !.allocated_cdev = @ \cup {c}]
          ELSE x1)
    ELSE IF c \notin DOMAIN k.cdevs THEN [x1 EXCEPT !.stop = "crash"]
    ELSE IF FLt(cdev_power_adjustment, 0) /\ c \notin DOMAIN k.pid_cdev_request_map
    THEN [x1 EXCEPT !.stop = "crash"]
    ELSE IF /\ FLt(cdev_power_adjustment, 0)
            /\ k.pid_cdev_request_map[c] = k.cdevs[c].max_state
    THEN x1
    ELSE IF c \notin DOMAIN k.pid_cdev_request_map
    THEN (IF b.enabled /\ ~x1.power_data_invalid /\ b.power_rail # ""
          THEN [x1 EXCEPT !.stop = "crash"]
          ELSE IF ~getCdevMaxRequest(k.reg, c).ok THEN [x1 EXCEPT !.stop = "false"]
          ELSE [x1 EXCEPT !.stop = "crash"])
    ELSE LET r == CdevPowerBudget(x1, k, c, b, cdev_power_adjustment)
         IN  IF r.fail THEN [x1 EXCEPT !.stop = "false"]
             ELSE [x1 EXCEPT !.pid_power_budget_map[c] = r.budget]

RECURSIVE AllocLoop(_, _, _, _, _)
AllocLoop(x, k, bmap, i, low_power_device_check) ==
    IF i > Len(bmap.keys) \/ x.stop # "" THEN x
    ELSE AllocLoop(AllocStep(x, k, bmap.keys[i], bmap.at[bmap.keys[i]],
                             low_power_device_check),
                   k, bmap, i + 1, low_power_device_check)

\* A first pass that leaves the budget and the weight of the excluded cdevs in.
AfterPassKeepsTotals(x) ==
    [(IF x.stop = "break" THEN [x EXCEPT !.stop = ""] ELSE x)
        EXCEPT !.allocated_power = 0, !.allocated_weight = 0]

\* What follows the for loop in each turn of while (!is_budget_allocated).
AfterPass(x) ==
    LET y == IF x.stop = "break" THEN [x EXCEPT !.stop = ""] ELSE x
    IN  [y EXCEPT
            !.total_power_budget =
                IF ~y.power_data_invalid THEN FSub(@, y.allocated_power) ELSE @,
            !.total_weight =
                IF ~y.power_data_invalid THEN FSub(@, y.allocated_weight) ELSE @,
            !.allocated_power = 0,
            !.allocated_weight = 0]

\* computeExcludedPower
RECURSIVE computeExcludedPower(_, _, _, _)
computeExcludedPower(excluded, rails, sev, power_status_map) ==
    IF rails = {} THEN 0
    ELSE LET r == CHOOSE r \in rails : TRUE
             last_updated_avg_power == power_status_map[r]
             rest == computeExcludedPower(excluded, rails \ {r}, sev, power_status_map)
         IN  IF ~isnan(last_updated_avg_power)
             THEN FAdd(FMul(last_updated_avg_power, excluded[r][sev]), rest)
             ELSE rest

\* The two turns of while (!is_budget_allocated) and what the call returns,
\* from the state x0 the weight walk leaves.
AllocatePasses(st, x0, k, bmap) ==
    LET x2 == AfterPass(AllocLoop(AfterPass(AllocLoop(x0, k, bmap, 1, TRUE)),
                                  k, bmap, 1, FALSE))
    IN  [st |-> [st EXCEPT !.pid_power_budget_map = x2.pid_power_budget_map],
         ok |-> x2.stop # "false",
         crash |-> x2.stop = "crash"]

\* allocatePowerToCdev after its call of updatePowerBudget, which returned pb.
AllocateBudget(pb, ti, reg, curr_severity, power_status_map, cdevs, max_throttling, fp_to_int) ==
    LET excluded_rails == DOMAIN ti.excluded_power_info_map
        total_power_budget ==
            IF excluded_rails # {}
            THEN FMax(FSub(pb.power_budget,
                           computeExcludedPower(ti.excluded_power_info_map,
                                                excluded_rails, curr_severity,
                                                power_status_map)), 0)
            ELSE pb.power_budget
    IN
    IF pb.crash \/ (excluded_rails \ DOMAIN power_status_map) # {}
    THEN [st |-> pb.st, ok |-> FALSE, crash |-> TRUE]
    ELSE AllocatePasses(
             pb.st,
             TotalWeightLoop(ActiveBinding(ti, pb.st.profile), curr_severity, 1,
                 [total_power_budget |-> total_power_budget, total_weight |-> 0,
                  last_updated_avg_power |-> NaN, allocated_power |-> 0,
                  allocated_weight |-> 0, power_data_invalid |-> FALSE,
                  allocated_cdev |-> {}, stop |-> "",
                  pid_power_budget_map |-> pb.st.pid_power_budget_map]),
             [sev |-> curr_severity, power_status_map |-> power_status_map,
              cdevs |-> cdevs, reg |-> reg, max_throttling |-> max_throttling,
              pid_cdev_request_map |-> pb.st.pid_cdev_request_map,
              fp_to_int |-> fp_to_int],
             ActiveBinding(ti, pb.st.profile))

\* [st, ok, crash]: the status after the call and what it returned.
allocatePowerToCdev(ts, reg, temp_value, si, curr_severity, time_elapsed_ms, power_status_map, cdevs, max_throttling, sensor_predictions, fp_to_int) ==
    AllocateBudget(
        updatePowerBudget(ts, reg, temp_value, si, cdevs, time_elapsed_ms,
                          curr_severity, max_throttling, sensor_predictions),
        si.throttling_info, reg, curr_severity, power_status_map, cdevs,
        max_throttling, fp_to_int)

-----------------------------------------------------------------------------
(* updateCdevRequestByPower, updateCdevRequestBySeverity, throttlingReleaseUpdate *)

\* A search that runs over every state and falls through to one past the last.
BudgetToStatePastEnd(pid_power_budget, state2power, max_state, i) ==
    Cardinality({j \in 0..max_state : ~FGe(I2F(pid_power_budget), state2power[j])})

\* A search that stops only at a state whose power is strictly below the budget.
RECURSIVE BudgetToStateStrict(_, _, _, _)
BudgetToStateStrict(pid_power_budget, state2power, max_state, i) ==
    IF i >= max_state THEN i
    ELSE IF FGt(I2F(pid_power_budget), state2power[i]) THEN i
    ELSE BudgetToStateStrict(pid_power_budget, state2power, max_state, i + 1)

\* for (i = 0; i < state2power.size() - 1; ++i) if (budget >= state2power[i]) break;
RECURSIVE BudgetToState(_, _, _, _)
BudgetToState(pid_power_budget, state2power, max_state, i) ==
    IF i >= max_state THEN i
    ELSE IF FGe(I2F(pid_power_budget), state2power[i]) THEN i
    ELSE BudgetToState(pid_power_budget, state2power, max_state, i + 1)

updateCdevRequestByPower(st, cdevs) ==
    [st EXCEPT !.pid_cdev_request_map =
        [c \in DOMAIN st.pid_power_budget_map |->
            BudgetToState(st.pid_power_budget_map[c], cdevs[c].state2power,
                          cdevs[c].max_state, 0)]]

\* A hard-limit update that would read the default binding under every profile.
BySeverityOfDefaultBinding(st, si, curr_severity) ==
    LET bmap == si.throttling_info.binded_cdev_info_map
    IN  [st EXCEPT !.hardlimit_cdev_request_map =
            [c \in DOMAIN @ |->
                IF c \in Range(bmap.keys)
                THEN (IF bmap.at[c].enabled THEN bmap.at[c].limit_info[curr_severity]
                      ELSE 0)
                ELSE @[c]]]

updateCdevRequestBySeverity(st, si, curr_severity) ==
    LET bmap == ActiveBinding(si.throttling_info, st.profile)
    IN  [st EXCEPT !.hardlimit_cdev_request_map =
            [c \in DOMAIN @ |->
                IF c \in Range(bmap.keys)
                THEN (IF bmap.at[c].enabled THEN bmap.at[c].limit_info[curr_severity]
                      ELSE 0)
                ELSE @[c]]]

\* A policy step that would not stop at max_state.
ReleaseStepUnbounded(release_step, b, avg_power, max_state, severity) ==
    LET is_over_budget ==
            IF ~b.high_power_check
            THEN ~FLt(avg_power, b.power_thresholds[severity])
            ELSE ~FGt(avg_power, b.power_thresholds[severity])
    IN  CASE b.release_logic = "INCREASE" ->
                IF ~is_over_budget THEN Max2(release_step - 1, -max_state - 1) ELSE 0
          [] b.release_logic = "DECREASE" ->
                IF ~is_over_budget THEN Min2(release_step + 1, max_state + 1) ELSE 0
          [] b.release_logic = "STEPWISE" ->
                IF ~is_over_budget THEN Min2(release_step + 1, max_state + 1)
                ELSE Max2(release_step - 1, -max_state - 1)
          [] b.release_logic = "RELEASE_TO_FLOOR" ->
                IF is_over_budget THEN 0 ELSE max_state
          [] OTHER -> release_step

\* The switch on release_logic, for a rail power that is neither NaN nor negative.
ReleaseStepUpdate(release_step, b, avg_power, max_state, severity) ==
    LET is_over_budget ==
            IF ~b.high_power_check
            THEN ~FLt(avg_power, b.power_thresholds[severity])
            ELSE ~FGt(avg_power, b.power_thresholds[severity])
    IN  CASE b.release_logic = "INCREASE" ->
                IF ~is_over_budget
                THEN (IF Abs(release_step) < max_state THEN release_step - 1
                      ELSE release_step)
                ELSE 0
          [] b.release_logic = "DECREASE" ->
                IF ~is_over_budget
                THEN (IF release_step < max_state THEN release_step + 1
                      ELSE release_step)
                ELSE 0
          [] b.release_logic = "STEPWISE" ->
                IF ~is_over_budget
                THEN (IF release_step < max_state THEN release_step + 1
                      ELSE release_step)
                ELSE (IF Abs(release_step) < max_state THEN release_step - 1
                      ELSE release_step)
          [] b.release_logic = "RELEASE_TO_FLOOR" ->
                IF is_over_budget THEN 0 ELSE max_state
          [] OTHER -> release_step

\* The loop over the default binding, from position i of the walk: it returns
\* at the first cdev without a release entry or without a power status.
RECURSIVE ReleaseLoop(_, _, _, _, _, _)
ReleaseLoop(throttling_release_map, bmap, cdevs, power_status_map, severity, i) ==
    IF i > Len(bmap.keys) THEN throttling_release_map
    ELSE LET c == bmap.keys[i]
             b == bmap.at[c]
         IN  IF \/ c \notin DOMAIN throttling_release_map
                \/ b.power_rail \notin DOMAIN power_status_map
             THEN throttling_release_map
             ELSE LET max_state == cdevs[c].max_state
                      avg_power == power_status_map[b.power_rail]
                      release_step ==
                          IF isnan(avg_power) \/ avg_power < 0
                          THEN (IF b.throttling_with_power_link THEN max_state ELSE 0)
                          ELSE ReleaseStepUpdate(throttling_release_map[c], b,
                                                 avg_power, max_state, severity)
                  IN  ReleaseLoop([throttling_release_map EXCEPT ![c] = release_step],
                                  bmap, cdevs, power_status_map, severity, i + 1)

throttlingReleaseUpdate(st, cdevs, power_status_map, severity, si) ==
    [st EXCEPT !.throttling_release_map =
        ReleaseLoop(@, si.throttling_info.binded_cdev_info_map, cdevs,
                    power_status_map, severity, 1)]

-----------------------------------------------------------------------------
(* thermalThrottlingUpdate: one control tick of a registered sensor *)

\* The tick after the profile was read (st1) and, for a sensor with PID cdevs,
\* allocatePowerToCdev returned a.
TickPhases(st, st1, a, si, curr_severity, power_status_map, cdevs) ==
    LET pid == DOMAIN st1.pid_power_budget_map # {}
        st2 == IF ~pid THEN st1
               ELSE IF a.ok THEN a.st
               ELSE [a.st EXCEPT !.pid_cdev_request_map = [c \in DOMAIN @ |-> 0]]
        st3 == IF pid THEN updateCdevRequestByPower(st2, cdevs) ELSE st1
        st4 == IF DOMAIN st1.hardlimit_cdev_request_map # {}
               THEN updateCdevRequestBySeverity(st3, si, curr_severity)
               ELSE st3
        st5 == IF DOMAIN st1.throttling_release_map # {}
               THEN throttlingReleaseUpdate(st4, cdevs, power_status_map,
                                            curr_severity, si)
               ELSE st4
    IN  IF pid /\ a.crash THEN [st |-> st, crash |-> TRUE, allocated |-> "crash"]
        ELSE [st |-> st5, crash |-> FALSE,
              allocated |-> IF ~pid THEN "none" ELSE IF a.ok THEN "true" ELSE "false"]

TickAfterProfile(st, st1, reg, temp_value, si, curr_severity, time_elapsed_ms, power_status_map, cdevs, max_throttling, sensor_predictions, fp_to_int) ==
    TickPhases(st, st1,
               allocatePowerToCdev(st1, reg, temp_value, si, curr_severity,
                                   time_elapsed_ms, power_status_map, cdevs,
                                   max_throttling, sensor_predictions, fp_to_int),
               si, curr_severity, power_status_map, cdevs)

\* [st, crash, allocated]: allocated is what allocatePowerToCdev returned
\* ("none" when the sensor has no PID cdev and it was not called).
thermalThrottlingUpdate(st, reg, temp_value, si, curr_severity, time_elapsed_ms, power_status_map, cdevs, max_throttling, sensor_predictions, profile_property, fp_to_int) ==
    TickAfterProfile(st,
                     IF DOMAIN si.throttling_info.profile_map # {}
                     THEN parseProfileProperty(st, si, profile_property)
                     ELSE st,
                     reg, temp_value, si, curr_severity, time_elapsed_ms,
                     power_status_map, cdevs, max_throttling, sensor_predictions,
                     fp_to_int)

-----------------------------------------------------------------------------
(* computeCoolingDevicesRequest *)

\* A combiner that would hold the request at the floor whatever the release step.
FloorAlways(pid_cdev_request, hardlimit_cdev_request, release_step, cdev_floor, cdev_ceiling) ==
    LET r0 == Max2(pid_cdev_request, hardlimit_cdev_request)
        r1 == IF release_step >= r0 /\ release_step # 0 THEN 0 ELSE r0 - release_step
    IN  Min2(Max2(r1, cdev_floor), cdev_ceiling)

\* A combine that applies the ceiling before the floor.
FloorLast(pid_cdev_request, hardlimit_cdev_request, release_step, cdev_floor, cdev_ceiling) ==
    LET r0 == Max2(pid_cdev_request, hardlimit_cdev_request)
    IN  IF release_step # 0
        THEN Max2(Min2(IF release_step >= r0 THEN 0 ELSE r0 - release_step,
                       cdev_ceiling),
                  cdev_floor)
        ELSE Min2(r0, cdev_ceiling)

\* The request of one cdev from its three inputs and the binding's floor, ceiling.
RequestState(pid_cdev_request, hardlimit_cdev_request, release_step, cdev_floor, cdev_ceiling) ==
    LET r0 == Max2(pid_cdev_request, hardlimit_cdev_request)
        r1 == IF release_step # 0
              THEN Max2(IF release_step >= r0 THEN 0 ELSE r0 - release_step,
                        cdev_floor)
              ELSE r0
    IN  Min2(r1, cdev_ceiling)

CdevRequest(st, bmap, c, curr_severity) ==
    RequestState(
        IF c \in DOMAIN st.pid_cdev_request_map THEN st.pid_cdev_request_map[c] ELSE 0,
        IF c \in DOMAIN st.hardlimit_cdev_request_map
        THEN st.hardlimit_cdev_request_map[c] ELSE 0,
        IF c \in DOMAIN st.throttling_release_map
        THEN st.throttling_release_map[c] ELSE 0,
        bmap.at[c].cdev_floor_with_power_link[curr_severity],
        bmap.at[c].cdev_ceiling[curr_severity])

\* [st, reg, changed, stats, crash]: changed is cooling_devices_to_update, stats the
\* (cdev, state) pairs handed to updateSensorCdevRequestStats.
computeCoolingDevicesRequest(st, reg, si, curr_severity) ==
    LET bmap == ActiveBinding(si.throttling_info, st.profile)
        voting == DOMAIN st.cdev_status_map
        request_state == [c \in voting |-> CdevRequest(st, bmap, c, curr_severity)]
        moved == {c \in voting : st.cdev_status_map[c] # request_state[c]}
        upd == [c \in moved |->
                   updateCdevMaxRequestAndNotifyIfChange(
                       reg[c], st.cdev_status_map[c], request_state[c])]
    IN  IF \E c \in voting : c \notin Range(bmap.keys)
        THEN [st |-> st, reg |-> reg, changed |-> {}, stats |-> {}, crash |-> TRUE]
        ELSE [st |-> [st EXCEPT !.cdev_status_map = request_state],
              reg |-> [c \in DOMAIN reg |->
                          IF c \in moved THEN upd[c].request_set ELSE reg[c]],
              changed |-> {c \in moved : upd[c].changed},
              stats |-> {<<c, request_state[c]>> : c \in moved},
              crash |-> \E c \in moved : upd[c].ub]

-----------------------------------------------------------------------------
(* Configurations: the SensorInfo and CdevInfo the callers pass in *)

BMap(keys, at) == [keys |-> keys, at |-> at]

NoBinding == BMap(<<>>, EmptyMap)

\* A binding as the config parser leaves it when the config names nothing.
DefaultBindedCdevInfo ==
    [cdev_weight_for_pid |-> ArrAll(NaN), limit_info |-> ArrAll(0),
     cdev_ceiling |-> ArrAll(3), cdev_floor_with_power_link |-> ArrAll(0),
     power_rail |-> "", power_thresholds |-> ArrAll(NaN),
     high_power_check |-> FALSE, release_logic |-> "NONE",
     max_throttle_step |-> INT_MAX, max_release_step |-> INT_MAX,
     enabled |-> TRUE, throttling_with_power_link |-> FALSE]

NoPredictor ==
    [present |-> FALSE, support_pid_compensation |-> FALSE,
     prediction_weights |-> <<>>, k_p_compensate |-> ArrAll(0)]

DefaultThrottlingInfo ==
    [s_power |-> ArrAll(NaN), k_po |-> ArrAll(0), k_pu |-> ArrAll(0),
     k_io |-> ArrAll(0), k_iu |-> ArrAll(0), k_d |-> ArrAll(0),
     i_max |-> ArrAll(NaN), i_cutoff |-> ArrAll(NaN),
     min_alloc_power |-> ArrAll(NaN), max_alloc_power |-> ArrAll(NaN),
     i_default |-> 0, i_default_pct |-> NaN, tran_cycle |-> 0,
     binded_cdev_info_map |-> NoBinding, profile_map |-> EmptyMap,
     excluded_power_info_map |-> EmptyMap]

DefaultSensorInfo ==
    [hot_thresholds |-> Arr(NaN, 40, 44, 48, 52, 56, 60), multiplier |-> 1,
     predictor_info |-> NoPredictor, throttling_info |-> DefaultThrottlingInfo]

State2Power(seq) == [i \in 0..(Len(seq) - 1) |-> seq[i + 1]]

CdevInfo(seq) == [state2power |-> State2Power(seq), max_state |-> Len(seq) - 1]

CoolingDeviceInfoMap ==
    [c \in {"c1", "c2"} |->
        IF c = "c1" THEN CdevInfo(<<30, 20, 10, 0>>) ELSE CdevInfo(<<20, 10, 5>>)]

-----------------------------------------------------------------------------
(* The handlers as actions.  env holds the sets the callers' arguments come from. *)

Registered(s) == s \in DOMAIN thermal_throttling_status_map_

Called(op, s, sev) == [op |-> op, sensor |-> s, sev |-> sev]

Crash(op, s, sev) ==
    /\ crashed' = TRUE
    /\ last_call' = Called(op, s, sev)
    /\ ret' = "crash"
    /\ cooling_devices_to_update' = {}
    /\ stats_requests' = {}
    /\ UNCHANGED <<thermal_throttling_status_map_, cdev_all_request_map_>>

\* A registration that reports success whatever the walk over the binding found.
RegisteringReportsSuccess(s, r) ==
    /\ ret' = "true"
    /\ thermal_throttling_status_map_' = Put(thermal_throttling_status_map_, s, r.st)
    /\ cdev_all_request_map_' = r.reg

\* The registration of a sensor not yet registered, r being what the walk over
\* the binding left.
Registering(s, r) ==
    /\ ret' = IF r.ok THEN "true" ELSE "false"
    /\ thermal_throttling_status_map_' = Put(thermal_throttling_status_map_, s, r.st)
    /\ cdev_all_request_map_' = r.reg

RegisterThermalThrottling(s, null_info) ==
    /\ ~crashed
    /\ last_call' = Called("register", s, NONE)
    /\ cooling_devices_to_update' = {}
    /\ stats_requests' = {}
    /\ UNCHANGED <<sensor_info_map, env, crashed, threads, power_files>>
    /\ IF Registered(s) \/ null_info
       THEN /\ ret' = "false"
            /\ UNCHANGED <<thermal_throttling_status_map_, cdev_all_request_map_>>
       ELSE Registering(s, RegisterLoop(
                               InitialStatus, cdev_all_request_map_,
                               sensor_info_map[s].throttling_info.binded_cdev_info_map,
                               DOMAIN CoolingDeviceInfoMap, 1))

ClearThrottlingData(s) ==
    /\ ~crashed
    /\ last_call' = Called("clear", s, NONE)
    /\ ret' = "none"
    /\ cooling_devices_to_update' = {}
    /\ stats_requests' = {}
    /\ UNCHANGED <<sensor_info_map, env, crashed, cdev_all_request_map_, threads,
                   power_files>>
    /\ IF ~Registered(s) THEN UNCHANGED thermal_throttling_status_map_
       ELSE thermal_throttling_status_map_' =
                [thermal_throttling_status_map_ EXCEPT ![s] = clearThrottlingData(@)]

\* The tick of a registered sensor, r being what thermalThrottlingUpdate left.
Ticking(s, sev, r) ==
    IF r.crash THEN Crash("update", s, sev)
    ELSE /\ last_call' = Called("update", s, sev)
         /\ ret' = r.allocated
         /\ cooling_devices_to_update' = {}
         /\ stats_requests' = {}
         /\ thermal_throttling_status_map_' =
                [thermal_throttling_status_map_ EXCEPT ![s] = r.st]
         /\ UNCHANGED <<cdev_all_request_map_, crashed>>

ThermalThrottlingUpdate(s, temp_value, sev, time_elapsed_ms, power_status_map, max_throttling, sensor_predictions, profile_property) ==
    /\ ~crashed
    /\ UNCHANGED <<sensor_info_map, env, threads, power_files>>
    /\ IF ~Registered(s)
       THEN /\ last_call' = Called("update", s, sev)
            /\ ret' = "none"
            /\ cooling_devices_to_update' = {}
            /\ stats_requests' = {}
            /\ UNCHANGED <<thermal_throttling_status_map_, cdev_all_request_map_,
                           crashed>>
       ELSE Ticking(s, sev,
                    thermalThrottlingUpdate(
                        thermal_throttling_status_map_[s], cdev_all_request_map_,
                        temp_value, sensor_info_map[s], sev, time_elapsed_ms,
                        power_status_map, CoolingDeviceInfoMap, max_throttling,
                        sensor_predictions, profile_property, env.fp_to_int))

\* The vote of a registered sensor, r being what computeCoolingDevicesRequest left.
Voting(s, sev, r) ==
    IF r.crash THEN Crash("compute", s, sev)
    ELSE /\ last_call' = Called("compute", s, sev)
         /\ ret' = "none"
         /\ cooling_devices_to_update' = r.changed
         /\ stats_requests' = r.stats
         /\ thermal_throttling_status_map_' =
                [thermal_throttling_status_map_ EXCEPT ![s] = r.st]
         /\ cdev_all_request_map_' = r.reg
         /\ UNCHANGED crashed

ComputeCoolingDevicesRequest(s, sev) ==
    /\ ~crashed
    /\ UNCHANGED <<sensor_info_map, env, threads, power_files>>
    /\ IF ~Registered(s)
       THEN /\ last_call' = Called("compute", s, sev)
            /\ ret' = "none"
            /\ cooling_devices_to_update' = {}
            /\ stats_requests' = {}
            /\ UNCHANGED <<thermal_throttling_status_map_, cdev_all_request_map_,
                           crashed>>
       ELSE Voting(s, sev,
                   computeCoolingDevicesRequest(
                       thermal_throttling_status_map_[s], cdev_all_request_map_,
                       sensor_info_map[s], sev))

RegisterStep ==
    \E s \in env.sensors, null_info \in env.null_infos :
        RegisterThermalThrottling(s, null_info)

ClearStep == \E s \in env.sensors : ClearThrottlingData(s)

UpdateStep ==
    \E s \in env.sensors, temp_value \in env.temps, sev \in env.sevs,
       time_elapsed_ms \in env.dts, power_status_map \in env.power_status_maps,
       max_throttling \in env.max_throttlings,
       sensor_predictions \in env.predictions, profile_property \in env.properties :
        ThermalThrottlingUpdate(s, temp_value, sev, time_elapsed_ms,
                                power_status_map, max_throttling,
                                sensor_predictions, profile_property)

ComputeStep ==
    \E s \in env.sensors, sev \in env.sevs : ComputeCoolingDevicesRequest(s, sev)

Next == RegisterStep \/ ClearStep \/ UpdateStep \/ ComputeStep

\* The two threads of the service: the watcher that runs the ticks, and a
\* caller of getCdevMaxRequest.
Threads == {"tick", "reader"}

Unlocked == [writer |-> "", readers |-> {}]

IdleFrame ==
    [s |-> "", sev |-> NONE, temp_value |-> 0, time_elapsed_ms |-> 0,
     power_status_map |-> EmptyMap, max_throttling |-> FALSE,
     profile_property |-> "", pending |-> {}, c |-> "", cur_request |-> 0,
     new_request |-> 0, cur_max_request |-> 0, read_c |-> "",
     observed |-> [ok |-> FALSE, max_state |-> 0]]

ThreadsIdle ==
    /\ thermal_throttling_status_map_mutex_ = Unlocked
    /\ cdev_all_request_map_mutex_ = Unlocked
    /\ pc = [t \in Threads |-> "idle"]
    /\ frame = IdleFrame
    /\ energy_info_map_ = EmptyMap
    /\ power_status_map_ = EmptyMap

InitState ==
    /\ ThreadsIdle
    /\ thermal_throttling_status_map_ = EmptyMap
    /\ cdev_all_request_map_ = EmptyMap
    /\ crashed = FALSE
    /\ last_call = Called("none", "", NONE)
    /\ ret = "none"
    /\ cooling_devices_to_update = {}
    /\ stats_requests = {}

-----------------------------------------------------------------------------
(* Spec: the handlers called one after another, in any order, for the       *)
(* sensors of a device.                                                    *)
(*   s1  on c1: PID, hard limit and release logic (rail r1); on c2: a PID  *)
(*       weight of zero and nothing else; a profile "p1" that throttles c1 *)
(*       with the power link                                               *)
(*   s2  on c1: a hard limit; on c2: a power threshold and nothing else    *)
(*   s3  bound to c1 and to cx, a cdev that cooling_device_info_map lacks  *)

S1C1 ==
    [DefaultBindedCdevInfo EXCEPT
        !.cdev_weight_for_pid = Arr(NaN, 1, 1, 1, 1, 1, 1),
        !.limit_info = Arr(0, 0, 0, 1, 2, 3, 3),
        !.cdev_ceiling = Arr(3, 3, 3, 3, 3, 2, 2),
        !.cdev_floor_with_power_link = Arr(0, 0, 1, 1, 1, 1, 3),
        !.power_rail = "r1",
        !.power_thresholds = Arr(NaN, 20, 20, 20, 20, 20, 20),
        !.release_logic = "STEPWISE",
        !.max_throttle_step = 1,
        !.max_release_step = 1]

S1C2 ==
    [DefaultBindedCdevInfo EXCEPT
        !.cdev_weight_for_pid = Arr(NaN, 0, 0, 0, 0, 0, 0),
        !.cdev_ceiling = ArrAll(2)]

S1Binding(keys, c1) == BMap(keys, [c \in {"c1", "c2"} |-> IF c = "c1" THEN c1 ELSE S1C2])

S1Info(keys) ==
    [DefaultSensorInfo EXCEPT
        !.throttling_info =
            [DefaultThrottlingInfo EXCEPT
                !.s_power = Arr(NaN, 25, 15, NaN, NaN, NaN, NaN),
                !.k_po = ArrAll(5), !.k_pu = ArrAll(1),
                !.k_io = ArrAll(1), !.k_iu = ArrAll(1),
                !.i_max = ArrAll(4), !.i_cutoff = ArrAll(3),
                !.min_alloc_power = ArrAll(0), !.max_alloc_power = ArrAll(30),
                !.tran_cycle = 2,
                !.binded_cdev_info_map = S1Binding(keys, S1C1),
                !.profile_map =
                    [p \in {"p1"} |->
                        S1Binding(keys,
                                  [S1C1 EXCEPT !.limit_info = Arr(0, 1, 1, 2, 3, 3, 3),
                                               !.throttling_with_power_link = TRUE])]]]

S2C1 == [DefaultBindedCdevInfo EXCEPT !.limit_info = Arr(0, 1, 2, 3, 3, 3, 3)]

S2C2 ==
    [DefaultBindedCdevInfo EXCEPT
        !.cdev_ceiling = ArrAll(2),
        !.power_rail = "r1",
        !.power_thresholds = Arr(NaN, 20, 20, 20, 20, 20, 20),
        !.release_logic = "RELEASE_TO_FLOOR"]

S2Info ==
    [DefaultSensorInfo EXCEPT
        !.throttling_info =
            [DefaultThrottlingInfo EXCEPT
                !.binded_cdev_info_map =
                    BMap(<<"c2", "c1">>,
                         [c \in {"c1", "c2"} |-> IF c = "c1" THEN S2C1 ELSE S2C2])]]

S3Info(keys) ==
    [DefaultSensorInfo EXCEPT
        !.throttling_info =
            [DefaultThrottlingInfo EXCEPT
                !.binded_cdev_info_map =
                    BMap(keys,
                         [c \in {"c1", "cx"} |->
                             [DefaultBindedCdevInfo EXCEPT
                                 !.limit_info = Arr(0, 1, 1, 2, 2, 3, 3)]])]]

\* The configs a device can have: s2 with s1, or s2 with s3, each with the
\* walk orders its unordered maps can take.
SensorInfoMaps ==
    {[s \in {"s1", "s2"} |-> IF s = "s1" THEN S1Info(keys) ELSE S2Info] :
        keys \in Perms({"c1", "c2"})}
    \cup {[s \in {"s2", "s3"} |-> IF s = "s3" THEN S3Info(keys) ELSE S2Info] :
        keys \in Perms({"c1", "cx"})}

MaxTemp == 46

Init ==
    /\ InitState
    /\ sensor_info_map \in SensorInfoMaps
    /\ \E fp_to_int \in {"saturate", "indefinite"} :
           env = [sensors |-> DOMAIN sensor_info_map,
                  null_infos |-> BOOLEAN,
                  temps |-> {MaxTemp},
                  sevs |-> {NONE, 6},
                  dts |-> {1},
                  power_status_maps |-> {[r \in {"r1"} |-> v] : v \in {25}},
                  max_throttlings |-> {FALSE},
                  predictions |-> {<<>>},
                  properties |-> {"", "p1"},
                  fp_to_int |-> fp_to_int]

Spec == Init /\ [][Next]_vars


-----------------------------------------------------------------------------
(* The vote registry against the sensors' recorded requests *)

\* The sensors that hold a request for cdev c, and the request s last recorded.
Voters(c) ==
    {s \in DOMAIN thermal_throttling_status_map_ :
        c \in DOMAIN thermal_throttling_status_map_[s].cdev_status_map}

LastRecorded(s, c) == thermal_throttling_status_map_[s].cdev_status_map[c]

CdevNames == (DOMAIN CoolingDeviceInfoMap) \cup {"cx"}

\* C1: for every cdev some sensor holds a request for, getCdevMaxRequest succeeds
\* and returns the largest of the requests the sensors last recorded for it.
C1_MaxRequestIsMaxOfRecorded ==
    \A c \in CdevNames :
        Voters(c) # {} =>
            /\ getCdevMaxRequest(cdev_all_request_map_, c).ok
            /\ getCdevMaxRequest(cdev_all_request_map_, c).max_state =
                   SetMax({LastRecorded(s, c) : s \in Voters(c)})

\* C1 witness: after a compute, two sensors hold different non-zero requests for c1.
C1_TwoVotesRecorded ==
    /\ last_call.op = "compute"
    /\ \E s, t \in Voters("c1") : 0 < LastRecorded(s, "c1")
                                   /\ LastRecorded(s, "c1") < LastRecorded(t, "c1")

\* C2: a compute of a registered sensor puts c on the changed list exactly when
\* the sensor's recorded request for c moved and the registry's maximum for c
\* moved with it.
C2_NotifyIffMaxMoved ==
    [][(last_call'.op = "compute" /\ Registered(last_call'.sensor) /\ ~crashed') =>
          \A c \in DOMAIN thermal_throttling_status_map_[last_call'.sensor].cdev_status_map :
              (c \in cooling_devices_to_update') <=>
                  /\ thermal_throttling_status_map_'[last_call'.sensor].cdev_status_map[c]
                         # LastRecorded(last_call'.sensor, c)
                  /\ getCdevMaxRequest(cdev_all_request_map_', c).max_state
                         # getCdevMaxRequest(cdev_all_request_map_, c).max_state]_vars

\* C2 witness: a compute moved the sensor's request for c1 while another sensor
\* held the maximum, and the changed list is empty.
C2_MovedBelowTheMax ==
    /\ last_call.op = "compute"
    /\ \E v \in 0..3 : <<"c1", v>> \in stats_requests
                       /\ v < getCdevMaxRequest(cdev_all_request_map_, "c1").max_state
    /\ cooling_devices_to_update = {}

-----------------------------------------------------------------------------
(* Registration *)

DefaultBinding(s) == sensor_info_map[s].throttling_info.binded_cdev_info_map

\* Some cdev of the sensor's default binding is not in cooling_device_info_map.
BindsUnknownCdev(s) ==
    \E c \in Range(DefaultBinding(s).keys) : c \notin DOMAIN CoolingDeviceInfoMap

\* C6: registerThermalThrottling returns false exactly when the sensor is already
\* registered, its throttling_info is null, or a cdev of its binding is unknown.
C6_RegisterReturnsFalseIff ==
    [][\A s \in env.sensors, null_info \in env.null_infos :
           RegisterThermalThrottling(s, null_info) =>
               /\ ret' \in {"true", "false"}
               /\ ret' = "false" <=>
                      (Registered(s) \/ null_info \/ BindsUnknownCdev(s))]_vars

\* C6 witness: a registration was refused for the unknown cdev of the binding,
\* and another went through.
C6_RefusedAndAccepted ==
    /\ last_call = Called("register", "s3", NONE)
    /\ ret = "false"
    /\ Registered("s3") /\ Registered("s2")

\* C7: a sensor whose binding names an unknown cdev stays unregistered: it has
\* no ThrottlingStatus entry, whatever was called for it.
C7_RefusedSensorHasNoStatus ==
    \A s \in DOMAIN sensor_info_map : BindsUnknownCdev(s) => ~Registered(s)

\* C8 (as the code has it): after a registration that went through, a cdev of
\* the default binding is a key of cdev_status_map exactly when some severity
\* has a PID weight that is a number (zero included) or a hard limit above zero.
C8_StatusKeyIffWeightOrLimit ==
    \A s \in DOMAIN thermal_throttling_status_map_ :
        ~BindsUnknownCdev(s) =>
            \A c \in Range(DefaultBinding(s).keys) :
                c \in DOMAIN thermal_throttling_status_map_[s].cdev_status_map <=>
                    \/ \E sev \in Severities :
                           ~isnan(DefaultBinding(s).at[c].cdev_weight_for_pid[sev])
                    \/ \E sev \in Severities : DefaultBinding(s).at[c].limit_info[sev] > 0

\* C8 witness: registered sensors hold c2 as a key for a zero PID weight (s1),
\* and hold a release entry but no key for a power threshold alone (s2).
C8_ZeroWeightKeyThresholdNoKey ==
    /\ Registered("s1") /\ Registered("s2")
    /\ "c2" \in DOMAIN thermal_throttling_status_map_["s1"].cdev_status_map
    /\ "c2" \in DOMAIN thermal_throttling_status_map_["s2"].throttling_release_map
    /\ "c2" \notin DOMAIN thermal_throttling_status_map_["s2"].cdev_status_map

\* C8 (as the spec has it): the key is there exactly for a non-zero PID weight,
\* a non-zero hard limit, or a power threshold.
C8_StatusKeyIffNonZeroOrThreshold ==
    \A s \in DOMAIN thermal_throttling_status_map_ :
        ~BindsUnknownCdev(s) =>
            \A c \in Range(DefaultBinding(s).keys) :
                c \in DOMAIN thermal_throttling_status_map_[s].cdev_status_map <=>
                    \/ \E sev \in Severities :
                           /\ ~isnan(DefaultBinding(s).at[c].cdev_weight_for_pid[sev])
                           /\ DefaultBinding(s).at[c].cdev_weight_for_pid[sev] # 0
                    \/ \E sev \in Severities : DefaultBinding(s).at[c].limit_info[sev] # 0
                    \/ /\ DefaultBinding(s).at[c].power_rail # ""
                       /\ \E sev \in Severities :
                              ~isnan(DefaultBinding(s).at[c].power_thresholds[sev])

-----------------------------------------------------------------------------
(* clearThrottlingData *)

\* C9 (as the code has it): a clear of a registered sensor resets the PID state
\* and the entries of the four request maps, and leaves cdev_status_map, the
\* profile and budget_transient as they were.
C9_ClearResetsAllButStatusMap ==
    [][(last_call'.op = "clear" /\ Registered(last_call'.sensor)) =>
          /\ DOMAIN thermal_throttling_status_map_' = DOMAIN thermal_throttling_status_map_
          /\ LET old == thermal_throttling_status_map_[last_call'.sensor]
                 new == thermal_throttling_status_map_'[last_call'.sensor]
             IN  /\ new.prev_err = NaN /\ new.i_budget = NaN
                 /\ new.prev_power_budget = NaN
                 /\ new.prev_target = NONE /\ new.tran_cycle = 0
                 /\ new.pid_power_budget_map =
                        [c \in DOMAIN old.pid_power_budget_map |-> INT_MAX]
                 /\ new.pid_cdev_request_map =
                        [c \in DOMAIN old.pid_cdev_request_map |-> 0]
                 /\ new.hardlimit_cdev_request_map =
                        [c \in DOMAIN old.hardlimit_cdev_request_map |-> 0]
                 /\ new.throttling_release_map =
                        [c \in DOMAIN old.throttling_release_map |-> 0]
                 /\ new.cdev_status_map = old.cdev_status_map
                 /\ new.profile = old.profile
                 /\ new.budget_transient = old.budget_transient]_vars

\* C9 witness: a clear has run on a sensor that keeps a non-zero recorded
\* request and the profile "p1".
C9_ClearedWithRequestAndProfile ==
    /\ last_call.op = "clear" /\ Registered(last_call.sensor)
    /\ thermal_throttling_status_map_[last_call.sensor].profile = "p1"
    /\ thermal_throttling_status_map_[last_call.sensor].i_budget = NaN
    /\ \E c \in DOMAIN thermal_throttling_status_map_[last_call.sensor].cdev_status_map :
           LastRecorded(last_call.sensor, c) > 0

\* C9 (as the spec has it): after a clear every field is as registration left
\* it, the entries of cdev_status_map included.
C9_ClearResetsEveryField ==
    (last_call.op = "clear" /\ Registered(last_call.sensor)) =>
        LET st == thermal_throttling_status_map_[last_call.sensor]
        IN  /\ st.prev_err = NaN /\ st.i_budget = NaN /\ st.prev_power_budget = NaN
            /\ st.prev_target = NONE /\ st.tran_cycle = 0
            /\ \A c \in DOMAIN st.pid_power_budget_map :
                   st.pid_power_budget_map[c] = INT_MAX
            /\ \A c \in DOMAIN st.pid_cdev_request_map : st.pid_cdev_request_map[c] = 0
            /\ \A c \in DOMAIN st.hardlimit_cdev_request_map :
                   st.hardlimit_cdev_request_map[c] = 0
            /\ \A c \in DOMAIN st.throttling_release_map :
                   st.throttling_release_map[c] = 0
            /\ \A c \in DOMAIN st.cdev_status_map : st.cdev_status_map[c] = 0

\* The largest request the sensors other than s last recorded for c, 0 if none.
MaxOfOthers(s, c) == SetMax({0} \cup {LastRecorded(t, c) : t \in Voters(c) \ {s}})

\* C10 (as the code has it): a clear leaves the registry and the sensor's
\* recorded requests as they were; the compute that follows the clear, with no
\* tick between them, records 0 for each cdev, and the registry's maximum is
\* then the largest request of the other sensors.
C10_VoteDropsAtNextCompute ==
    [][/\ (last_call'.op = "clear" /\ Registered(last_call'.sensor)) =>
              /\ cdev_all_request_map_' = cdev_all_request_map_
              /\ thermal_throttling_status_map_'[last_call'.sensor].cdev_status_map =
                     thermal_throttling_status_map_[last_call'.sensor].cdev_status_map
       /\ (/\ last_call.op = "clear" /\ last_call'.op = "compute"
           /\ last_call'.sensor = last_call.sensor
           /\ Registered(last_call.sensor) /\ ~crashed') =>
              \A c \in DOMAIN thermal_throttling_status_map_[last_call.sensor].cdev_status_map :
                  /\ thermal_throttling_status_map_'[last_call.sensor].cdev_status_map[c] = 0
                  /\ getCdevMaxRequest(cdev_all_request_map_', c).max_state =
                         MaxOfOthers(last_call.sensor, c)]_vars

\* C10 witness: a clear has run on the sensor that alone holds the maximum
\* for c1, and the registry still returns its request.
C10_ClearedSensorStillHoldsMax ==
    /\ last_call.op = "clear" /\ Registered(last_call.sensor)
    /\ "c1" \in DOMAIN thermal_throttling_status_map_[last_call.sensor].cdev_status_map
    /\ LastRecorded(last_call.sensor, "c1") > MaxOfOthers(last_call.sensor, "c1")
    /\ getCdevMaxRequest(cdev_all_request_map_, "c1").max_state =
           LastRecorded(last_call.sensor, "c1")

\* C10 (as the spec has it): right after a clear the registry's maximum for each
\* of the sensor's cdevs is the largest request of the other sensors.
C10_VoteIsZeroAfterClear ==
    (last_call.op = "clear" /\ Registered(last_call.sensor)) =>
        \A c \in DOMAIN thermal_throttling_status_map_[last_call.sensor].cdev_status_map :
            getCdevMaxRequest(cdev_all_request_map_, c).max_state =
                MaxOfOthers(last_call.sensor, c)

-----------------------------------------------------------------------------
(* SpecConc: the tick of a sensor and the compute that follows it, run by   *)
(* the watcher thread one lock-delimited step at a time, beside a thread    *)
(* that calls getCdevMaxRequest.  s1 and s2 are registered before the       *)
(* threads start.                                                           *)

\* std::unique_lock / std::shared_lock on a std::shared_mutex m.
CanLockUnique(m) == m.writer = "" /\ m.readers = {}

\* A shared lock that does not wait for the writer.
LockSharedUnguarded(m) == TRUE

CanLockShared(m) == m.writer = ""

LockUnique(m, t) == [m EXCEPT !.writer = t]

LockShared(m, t) == [m EXCEPT !.readers = @ \cup {t}]

\* A lock that its holder does not give back on return.
KeepLocked(m, t) == m

Unlock(m, t) ==
    [m EXCEPT !.writer = IF @ = t THEN "" ELSE @, !.readers = @ \ {t}]

At(t, label) == ~crashed /\ pc[t] = label

Goto(t, label) == pc' = [pc EXCEPT ![t] = label]

\* What no step of a thread changes.
Frozen == UNCHANGED <<sensor_info_map, env, last_call, ret, power_files>>

TickStatus == thermal_throttling_status_map_[frame.s]

TickInfo == sensor_info_map[frame.s]

\* thermalThrottlingUpdate is called: the count of the sensor (line 760).
TickBegin ==
    /\ At("tick", "idle")
    /\ \E s \in env.sensors, temp_value \in env.temps, sev \in env.sevs,
          time_elapsed_ms \in env.dts, power_status_map \in env.power_status_maps,
          max_throttling \in env.max_throttlings,
          profile_property \in env.properties :
           frame' = [frame EXCEPT !.s = s, !.sev = sev, !.temp_value = temp_value,
                                  !.time_elapsed_ms = time_elapsed_ms,
                                  !.power_status_map = power_status_map,
                                  !.max_throttling = max_throttling,
                                  !.profile_property = profile_property]
    /\ Goto("tick", IF frame'.s \in DOMAIN thermal_throttling_status_map_
                    THEN "profile" ELSE "idle")
    /\ Frozen
    /\ UNCHANGED <<thermal_throttling_status_map_, cdev_all_request_map_, crashed,
                   cooling_devices_to_update, stats_requests,
                   thermal_throttling_status_map_mutex_, cdev_all_request_map_mutex_>>

\* parseProfileProperty, which takes no lock, and the test that follows it.
TickProfile ==
    /\ At("tick", "profile")
    /\ thermal_throttling_status_map_' =
           [thermal_throttling_status_map_ EXCEPT
               ![frame.s] = IF DOMAIN TickInfo.throttling_info.profile_map # {}
                            THEN parseProfileProperty(@, TickInfo, frame.profile_property)
                            ELSE @]
    /\ Goto("tick", IF DOMAIN TickStatus.pid_power_budget_map # {}
                    THEN "allocate" ELSE "severity")
    /\ Frozen
    /\ UNCHANGED <<cdev_all_request_map_, crashed, cooling_devices_to_update,
                   stats_requests, frame, thermal_throttling_status_map_mutex_,
                   cdev_all_request_map_mutex_>>

\* A function of the tick takes the unique lock on the status map.
TickLock(from, to) ==
    /\ At("tick", from)
    /\ CanLockUnique(thermal_throttling_status_map_mutex_)
    /\ thermal_throttling_status_map_mutex_' =
           LockUnique(thermal_throttling_status_map_mutex_, "tick")
    /\ Goto("tick", to)
    /\ Frozen
    /\ UNCHANGED <<thermal_throttling_status_map_, cdev_all_request_map_, crashed,
                   cooling_devices_to_update, stats_requests, frame,
                   cdev_all_request_map_mutex_>>

\* The function returns: its writes, and the release of the lock.
TickWrite(from, to, st) ==
    /\ At("tick", from)
    /\ thermal_throttling_status_map_' =
           [thermal_throttling_status_map_ EXCEPT ![frame.s] = st]
    /\ thermal_throttling_status_map_mutex_' =
           Unlock(thermal_throttling_status_map_mutex_, "tick")
    /\ Goto("tick", to)
    /\ Frozen
    /\ UNCHANGED <<cdev_all_request_map_, crashed, cooling_devices_to_update,
                   stats_requests, frame, cdev_all_request_map_mutex_>>

TickAllocateLock == TickLock("allocate", "allocating")

\* allocatePowerToCdev under its lock, a being what it leaves.
TickAllocated(a) ==
    IF a.crash
    THEN /\ At("tick", "allocating")
         /\ crashed' = TRUE
         /\ Frozen
         /\ UNCHANGED <<thermal_throttling_status_map_, cdev_all_request_map_,
                        cooling_devices_to_update, stats_requests, threads>>
    ELSE TickWrite("allocating", IF a.ok THEN "power" ELSE "zero", a.st)

TickAllocate ==
    /\ At("tick", "allocating")
    /\ TickAllocated(allocatePowerToCdev(
                         TickStatus, cdev_all_request_map_, frame.temp_value, TickInfo,
                         frame.sev, frame.time_elapsed_ms, frame.power_status_map,
                         CoolingDeviceInfoMap, frame.max_throttling, <<>>,
                         env.fp_to_int))

\* The zeroing of pid_cdev_request_map after a failed allocation, with no lock.
TickZero ==
    /\ At("tick", "zero")
    /\ thermal_throttling_status_map_' =
           [thermal_throttling_status_map_ EXCEPT
               ![frame.s].pid_cdev_request_map = [c \in DOMAIN @ |-> 0]]
    /\ Goto("tick", "power")
    /\ Frozen
    /\ UNCHANGED <<cdev_all_request_map_, crashed, cooling_devices_to_update,
                   stats_requests, frame, thermal_throttling_status_map_mutex_,
                   cdev_all_request_map_mutex_>>

TickPowerLock == TickLock("power", "powering")

TickPower ==
    TickWrite("powering", "severity",
              updateCdevRequestByPower(TickStatus, CoolingDeviceInfoMap))

TickSeverityLock ==
    /\ At("tick", "severity")
    /\ DOMAIN TickStatus.hardlimit_cdev_request_map # {}
    /\ TickLock("severity", "limiting")

TickSeverity ==
    TickWrite("limiting", "release",
              updateCdevRequestBySeverity(TickStatus, TickInfo, frame.sev))

TickReleaseLock ==
    /\ At("tick", "release")
    /\ DOMAIN TickStatus.throttling_release_map # {}
    /\ TickLock("release", "releasing")

TickRelease ==
    TickWrite("releasing", "compute",
              throttlingReleaseUpdate(TickStatus, CoolingDeviceInfoMap,
                                      frame.power_status_map, frame.sev, TickInfo))

\* A sensor without hard limits or without release entries skips the function.
TickSkip ==
    /\ \/ At("tick", "severity") /\ DOMAIN TickStatus.hardlimit_cdev_request_map = {}
          /\ Goto("tick", "release")
       \/ At("tick", "release") /\ DOMAIN TickStatus.throttling_release_map = {}
          /\ Goto("tick", "compute")
    /\ Frozen
    /\ UNCHANGED <<thermal_throttling_status_map_, cdev_all_request_map_, crashed,
                   cooling_devices_to_update, stats_requests, frame,
                   thermal_throttling_status_map_mutex_, cdev_all_request_map_mutex_>>

\* computeCoolingDevicesRequest takes the lock and starts its walk.
ComputeLock ==
    /\ At("tick", "compute")
    /\ CanLockUnique(thermal_throttling_status_map_mutex_)
    /\ thermal_throttling_status_map_mutex_' =
           LockUnique(thermal_throttling_status_map_mutex_, "tick")
    /\ frame' = [frame EXCEPT !.pending = DOMAIN TickStatus.cdev_status_map]
    /\ cooling_devices_to_update' = {}
    /\ stats_requests' = {}
    /\ Goto("tick", "walk")
    /\ Frozen
    /\ UNCHANGED <<thermal_throttling_status_map_, cdev_all_request_map_, crashed,
                   cdev_all_request_map_mutex_>>

\* One turn of the walk up to the test of line 861, for the cdev c.
ComputeWalkOn(c, request_state) ==
    /\ frame' = [frame EXCEPT
                    !.pending = IF request_state = TickStatus.cdev_status_map[c]
                                THEN @ \ {c} ELSE @,
                    !.c = c,
                    !.cur_request = TickStatus.cdev_status_map[c],
                    !.new_request = request_state]
    /\ Goto("tick", IF request_state = TickStatus.cdev_status_map[c]
                    THEN "walk" ELSE "vote")

ComputeWalk ==
    /\ At("tick", "walk")
    /\ \E c \in frame.pending :
           ComputeWalkOn(c, CdevRequest(TickStatus,
                                        ActiveBinding(TickInfo.throttling_info,
                                                      TickStatus.profile),
                                        c, frame.sev))
    /\ Frozen
    /\ UNCHANGED <<thermal_throttling_status_map_, cdev_all_request_map_, crashed,
                   cooling_devices_to_update, stats_requests,
                   thermal_throttling_status_map_mutex_, cdev_all_request_map_mutex_>>

\* updateCdevMaxRequestAndNotifyIfChange: the lock and the read of the maximum.
VoteLock ==
    /\ At("tick", "vote")
    /\ CanLockUnique(cdev_all_request_map_mutex_)
    /\ cdev_all_request_map_mutex_' = LockUnique(cdev_all_request_map_mutex_, "tick")
    /\ frame' = [frame EXCEPT
                    !.cur_max_request = RequestSetBegin(cdev_all_request_map_[frame.c])]
    /\ Goto("tick", "erase")
    /\ Frozen
    /\ UNCHANGED <<thermal_throttling_status_map_, cdev_all_request_map_, crashed,
                   cooling_devices_to_update, stats_requests,
                   thermal_throttling_status_map_mutex_>>

\* request_set.erase(request_set.find(cur_request))
VoteErase ==
    /\ At("tick", "erase")
    /\ crashed' = ~BagIn(frame.cur_request, cdev_all_request_map_[frame.c])
    /\ cdev_all_request_map_' =
           [cdev_all_request_map_ EXCEPT
               ![frame.c] = RequestSetEraseOne(@, frame.cur_request)]
    /\ Goto("tick", "insert")
    /\ Frozen
    /\ UNCHANGED <<thermal_throttling_status_map_, cooling_devices_to_update,
                   stats_requests, frame, thermal_throttling_status_map_mutex_,
                   cdev_all_request_map_mutex_>>

\* request_set.insert(new_request)
VoteInsert ==
    /\ At("tick", "insert")
    /\ cdev_all_request_map_' =
           [cdev_all_request_map_ EXCEPT
               ![frame.c] = RequestSetInsert(@, frame.new_request)]
    /\ Goto("tick", "voted")
    /\ Frozen
    /\ UNCHANGED <<thermal_throttling_status_map_, crashed, cooling_devices_to_update,
                   stats_requests, frame, thermal_throttling_status_map_mutex_,
                   cdev_all_request_map_mutex_>>

\* The read of the new maximum, the return, and lines 863 to 870 of the walk.
VoteReturn ==
    /\ At("tick", "voted")
    /\ cdev_all_request_map_mutex_' = Unlock(cdev_all_request_map_mutex_, "tick")
    /\ cooling_devices_to_update' =
           IF RequestSetBegin(cdev_all_request_map_[frame.c]) # frame.cur_max_request
           THEN cooling_devices_to_update \cup {frame.c}
           ELSE cooling_devices_to_update
    /\ thermal_throttling_status_map_' =
           [thermal_throttling_status_map_ EXCEPT
               ![frame.s].cdev_status_map[frame.c] = frame.new_request]
    /\ stats_requests' = stats_requests \cup {<<frame.c, frame.new_request>>}
    /\ frame' = [frame EXCEPT !.pending = @ \ {frame.c}]
    /\ Goto("tick", "walk")
    /\ Frozen
    /\ UNCHANGED <<cdev_all_request_map_, crashed,
                   thermal_throttling_status_map_mutex_>>

\* The walk is over: computeCoolingDevicesRequest returns.
ComputeReturn ==
    /\ At("tick", "walk")
    /\ frame.pending = {}
    /\ thermal_throttling_status_map_mutex_' =
           Unlock(thermal_throttling_status_map_mutex_, "tick")
    /\ frame' = [IdleFrame EXCEPT !.read_c = frame.read_c,
                                   !.observed = frame.observed]
    /\ Goto("tick", "idle")
    /\ Frozen
    /\ UNCHANGED <<thermal_throttling_status_map_, cdev_all_request_map_, crashed,
                   cooling_devices_to_update, stats_requests,
                   cdev_all_request_map_mutex_>>

\* getCdevMaxRequest: the shared lock.
ReaderLock ==
    /\ At("reader", "idle")
    /\ CanLockShared(cdev_all_request_map_mutex_)
    /\ cdev_all_request_map_mutex_' = LockShared(cdev_all_request_map_mutex_, "reader")
    /\ \E c \in DOMAIN CoolingDeviceInfoMap : frame' = [frame EXCEPT !.read_c = c]
    /\ Goto("reader", "read")
    /\ Frozen
    /\ UNCHANGED <<thermal_throttling_status_map_, cdev_all_request_map_, crashed,
                   cooling_devices_to_update, stats_requests,
                   thermal_throttling_status_map_mutex_>>

\* getCdevMaxRequest: the read of *begin() and the return.
ReaderRead ==
    /\ At("reader", "read")
    /\ frame' = [frame EXCEPT
                    !.read_c = "",
                    !.observed = getCdevMaxRequest(cdev_all_request_map_, frame.read_c)]
    /\ cdev_all_request_map_mutex_' = Unlock(cdev_all_request_map_mutex_, "reader")
    /\ Goto("reader", "idle")
    /\ Frozen
    /\ UNCHANGED <<thermal_throttling_status_map_, cdev_all_request_map_, crashed,
                   cooling_devices_to_update, stats_requests,
                   thermal_throttling_status_map_mutex_>>

NextConc ==
    \/ TickBegin \/ TickProfile \/ TickAllocateLock \/ TickAllocate \/ TickZero
    \/ TickPowerLock \/ TickPower \/ TickSeverityLock \/ TickSeverity
    \/ TickReleaseLock \/ TickRelease \/ TickSkip
    \/ ComputeLock \/ ComputeWalk \/ VoteLock \/ VoteErase \/ VoteInsert
    \/ VoteReturn \/ ComputeReturn
    \/ ReaderLock \/ ReaderRead

\* What registerThermalThrottling leaves for s1 and then s2.
RegisteredS1 ==
    RegisterLoop(InitialStatus, EmptyMap,
                 S1Info(<<"c1", "c2">>).throttling_info.binded_cdev_info_map,
                 DOMAIN CoolingDeviceInfoMap, 1)

\* A sensor that binds c1 alone, by hard limit.
S2LimitInfo ==
    [DefaultSensorInfo EXCEPT
        !.throttling_info =
            [DefaultThrottlingInfo EXCEPT
                !.binded_cdev_info_map = BMap(<<"c1">>, [c \in {"c1"} |-> S2C1])]]

RegisteredS2 ==
    RegisterLoop(InitialStatus, RegisteredS1.reg,
                 S2LimitInfo.throttling_info.binded_cdev_info_map,
                 DOMAIN CoolingDeviceInfoMap, 1)

InitConc ==
    /\ ThreadsIdle
    /\ sensor_info_map =
           [s \in {"s1", "s2"} |->
               IF s = "s1" THEN S1Info(<<"c1", "c2">>) ELSE S2LimitInfo]
    /\ thermal_throttling_status_map_ =
           [s \in {"s1", "s2"} |-> IF s = "s1" THEN RegisteredS1.st ELSE RegisteredS2.st]
    /\ cdev_all_request_map_ = RegisteredS2.reg
    /\ crashed = FALSE
    /\ last_call = Called("none", "", NONE)
    /\ ret = "none"
    /\ cooling_devices_to_update = {}
    /\ stats_requests = {}
    /\ \E fp_to_int \in {"saturate", "indefinite"} :
           env = [sensors |-> {"s1", "s2"},
                  null_infos |-> {FALSE},
                  temps |-> {MaxTemp},
                  sevs |-> {NONE, 6},
                  dts |-> {1},
                  power_status_maps |-> {[r \in {"r1"} |-> 25]},
                  max_throttlings |-> {FALSE},
                  predictions |-> {<<>>},
                  properties |-> {"", "p1", "px"},
                  fp_to_int |-> fp_to_int]

SpecConc == InitConc /\ [][NextConc]_vars

-----------------------------------------------------------------------------
(* SpecCombine: computeCoolingDevicesRequest on a sensor whose three inputs *)
(* for c1, and the floor and ceiling of c1 at severity 6, take every value  *)
(* up to MaxRequest.                                                        *)

MaxRequest == 3

\* A binding of c1 by PID weight, hard limit and power threshold.
CombineC1(cdev_floor, cdev_ceiling) ==
    [DefaultBindedCdevInfo EXCEPT
        !.cdev_weight_for_pid = Arr(NaN, 1, 1, 1, 1, 1, 1),
        !.limit_info = Arr(0, 1, 2, 3, 3, 3, 3),
        !.power_rail = "r1",
        !.power_thresholds = Arr(NaN, 20, 20, 20, 20, 20, 20),
        !.release_logic = "INCREASE",
        !.cdev_floor_with_power_link =
            [sev \in Severities |-> IF sev = 6 THEN cdev_floor ELSE 0],
        !.cdev_ceiling =
            [sev \in Severities |-> IF sev = 6 THEN cdev_ceiling ELSE MaxRequest]]

CombineInfo(cdev_floor, cdev_ceiling) ==
    [DefaultSensorInfo EXCEPT
        !.throttling_info =
            [DefaultThrottlingInfo EXCEPT
                !.binded_cdev_info_map =
                    BMap(<<"c1">>,
                         [c \in {"c1"} |-> CombineC1(cdev_floor, cdev_ceiling)])]]

\* The status of the sensor after ticks that left the three requests for c1.
CombineStatus(pid_cdev_request, hardlimit_cdev_request, release_step) ==
    [InitialStatus EXCEPT
        !.pid_power_budget_map = [c \in {"c1"} |-> INT_MAX],
        !.pid_cdev_request_map = [c \in {"c1"} |-> pid_cdev_request],
        !.hardlimit_cdev_request_map = [c \in {"c1"} |-> hardlimit_cdev_request],
        !.throttling_release_map = [c \in {"c1"} |-> release_step],
        !.cdev_status_map = [c \in {"c1"} |-> 0]]

InitCombine ==
    /\ ThreadsIdle
    /\ \E cdev_floor \in 0..MaxRequest, cdev_ceiling \in 0..MaxRequest :
           sensor_info_map = [s \in {"s1"} |-> CombineInfo(cdev_floor, cdev_ceiling)]
    /\ \E pid_cdev_request \in 0..MaxRequest, hardlimit_cdev_request \in 0..MaxRequest,
          release_step \in (-MaxRequest)..MaxRequest :
           thermal_throttling_status_map_ =
               [s \in {"s1"} |->
                   CombineStatus(pid_cdev_request, hardlimit_cdev_request, release_step)]
    /\ cdev_all_request_map_ = [c \in {"c1"} |-> SetToBag({0}) (+) SetToBag({0})]
    /\ crashed = FALSE
    /\ last_call = Called("none", "", NONE)
    /\ ret = "none"
    /\ cooling_devices_to_update = {}
    /\ stats_requests = {}
    /\ env = [sensors |-> {"s1"}, null_infos |-> {FALSE}, temps |-> {MaxTemp},
              sevs |-> {NONE, 6}, dts |-> {1},
              power_status_maps |-> {[r \in {"r1"} |-> 25]},
              max_throttlings |-> {FALSE}, predictions |-> {<<>>},
              properties |-> {""}, fp_to_int |-> "saturate"]

SpecCombine == InitCombine /\ [][ComputeStep]_vars

\* What the compute of s1 read for c1, and what it recorded.
CombineOf == thermal_throttling_status_map_["s1"]

CombineBinding == sensor_info_map["s1"].throttling_info.binded_cdev_info_map.at["c1"]

CombineFloor == CombineBinding.cdev_floor_with_power_link[last_call.sev]

CombineCeiling == CombineBinding.cdev_ceiling[last_call.sev]

CombineRequest == CombineOf.cdev_status_map["c1"]

CombineRelease == CombineOf.throttling_release_map["c1"]

\* C3 (as the code has it): the request a compute records never exceeds the
\* ceiling of the current severity; it is at least 0, and with a non-zero
\* release_step at least the smaller of the floor and the ceiling.
C3_RequestWithinCeilingAndFloorUpToCeiling ==
    last_call.op = "compute" =>
        /\ CombineRequest <= CombineCeiling
        /\ CombineRequest >= 0
        /\ CombineRelease # 0 => CombineRequest >= Min2(CombineFloor, CombineCeiling)

\* C3 witness: a compute with a non-zero release_step and a floor above the
\* ceiling has recorded the ceiling.
C3_FloorAboveCeilingRecordsCeiling ==
    /\ last_call.op = "compute"
    /\ CombineRelease # 0
    /\ CombineFloor > CombineCeiling
    /\ CombineRequest = CombineCeiling

\* C3 (as stated): with a non-zero release_step the recorded request lies in
\* [floor, ceiling], with a zero release_step in [0, ceiling].
C3_RequestWithinFloorAndCeiling ==
    last_call.op = "compute" =>
        /\ CombineRequest <= CombineCeiling
        /\ CombineRequest >= (IF CombineRelease # 0 THEN CombineFloor ELSE 0)

-----------------------------------------------------------------------------
(* The locks, under SpecConc *)

\* The votes registration put in the registry for cdev c: one for each sensor
\* that binds c by PID weight and one for each that binds it by hard limit.
RegisteredVotes(c) ==
    Cardinality({s \in DOMAIN thermal_throttling_status_map_ :
                    c \in DOMAIN thermal_throttling_status_map_[s].pid_cdev_request_map})
    + Cardinality({s \in DOMAIN thermal_throttling_status_map_ :
                    c \in DOMAIN
                        thermal_throttling_status_map_[s].hardlimit_cdev_request_map})

\* C4: whenever a thread is inside getCdevMaxRequest, about to read the maximum,
\* the registry holds every vote: no vote is removed and not yet replaced.
C4_ReaderSeesEveryVote ==
    pc["reader"] = "read" =>
        \A c \in DOMAIN cdev_all_request_map_ :
            BagCardinality(cdev_all_request_map_[c]) = RegisteredVotes(c)

\* C4 witness: a reader is inside getCdevMaxRequest while the compute has a vote
\* to replace and waits for the registry's lock.
C4_ReaderInsideWhileVoteWaits ==
    /\ pc["reader"] = "read"
    /\ pc["tick"] = "vote"
    /\ frame.cur_request # frame.new_request
    /\ frame.read_c = frame.c

\* C5 (as stated): every step of the tick that changes a sensor's status is taken
\* by the thread while it holds the unique lock on the status map.
C5_StatusWrittenUnderUniqueLock ==
    [][thermal_throttling_status_map_' # thermal_throttling_status_map_ =>
          thermal_throttling_status_map_mutex_.writer = "tick"]_vars

-----------------------------------------------------------------------------
(* SpecPid: the control loop of one registered sensor that binds c2 by PID  *)
(* weight alone, with no power rail; ticks and clears in any order.        *)
(* Its PID tables are defined at severities 2 and 3, with a narrower       *)
(* budget range and a smaller i_max at 3.                                 *)

PidC2 ==
    [DefaultBindedCdevInfo EXCEPT !.cdev_weight_for_pid = Arr(NaN, 1, 1, 1, 1, 1, 1),
                                  !.cdev_ceiling = ArrAll(2)]

PidInfo ==
    [DefaultSensorInfo EXCEPT
        !.throttling_info =
            [DefaultThrottlingInfo EXCEPT
                !.s_power = Arr(NaN, NaN, 24, 8, NaN, NaN, NaN),
                !.k_po = ArrAll(4), !.k_pu = ArrAll(4),
                !.k_io = ArrAll(2), !.k_iu = ArrAll(2), !.k_d = Arr(0, 0, 0, 1, 0, 0, 0),
                !.i_max = Arr(NaN, NaN, 4, 2, NaN, NaN, NaN), !.i_cutoff = ArrAll(3),
                !.min_alloc_power = ArrAll(0),
                !.max_alloc_power = Arr(NaN, NaN, 30, 16, NaN, NaN, NaN),
                !.tran_cycle = 2,
                !.binded_cdev_info_map = BMap(<<"c2">>, [c \in {"c2"} |-> PidC2])]]

\* What registerThermalThrottling leaves for the sensor.
RegisteredPid ==
    RegisterLoop(InitialStatus, EmptyMap, PidInfo.throttling_info.binded_cdev_info_map,
                 DOMAIN CoolingDeviceInfoMap, 1)

MaxSeverity == 2

InitPid ==
    /\ ThreadsIdle
    /\ sensor_info_map = [s \in {"s1"} |-> PidInfo]
    /\ thermal_throttling_status_map_ = [s \in {"s1"} |-> RegisteredPid.st]
    /\ cdev_all_request_map_ = RegisteredPid.reg
    /\ crashed = FALSE
    /\ last_call = Called("none", "", NONE)
    /\ ret = "none"
    /\ cooling_devices_to_update = {}
    /\ stats_requests = {}
    /\ \E fp_to_int \in {"saturate", "indefinite"} :
           env = [sensors |-> {"s1"}, null_infos |-> {FALSE},
                  temps |-> {MaxTemp, MaxTemp + 4},
                  sevs |-> NONE..MaxSeverity, dts |-> {1},
                  power_status_maps |-> {[r \in {"r1"} |-> 25]},
                  max_throttlings |-> BOOLEAN, predictions |-> {<<>>},
                  properties |-> {""}, fp_to_int |-> fp_to_int]

NextPid == ClearStep \/ UpdateStep

SpecPid == InitPid /\ [][NextPid]_vars

-----------------------------------------------------------------------------
(* The power budget, under SpecPid *)

\* The status of the sensor of the last call, its tables and its target state.
LastStatus == thermal_throttling_status_map_[last_call.sensor]

LastTables == sensor_info_map[last_call.sensor].throttling_info

\* The last call was a control tick of a registered sensor above NONE.
Ticked ==
    /\ last_call.op = "update" /\ last_call.sev # NONE
    /\ Registered(last_call.sensor) /\ ~crashed

\* The error of a tick: the threshold of the target state less the temperature.
TickErr(s, temp_value, sev) ==
    FSub(sensor_info_map[s].hot_thresholds[
             getTargetStateOfPID(sensor_info_map[s].throttling_info.s_power, sev)],
         temp_value)

\* A step that is a tick of the registered sensor s above NONE in which
\* updatePowerBudget runs to its end and stores the error: it does not return
\* at line 225, as it does for max_throttling with an error at or below 0.
PidTick(s, temp_value, sev, max_throttling) ==
    /\ sev # NONE /\ Registered(s) /\ ~crashed'
    /\ last_call' = Called("update", s, sev)
    /\ ~(max_throttling /\ FLe(TickErr(s, temp_value, sev), 0))
    /\ thermal_throttling_status_map_'[s].prev_err = TickErr(s, temp_value, sev)
    /\ \E time_elapsed_ms \in env.dts, power_status_map \in env.power_status_maps,
          sensor_predictions \in env.predictions, profile_property \in env.properties :
           ThermalThrottlingUpdate(s, temp_value, sev, time_elapsed_ms, power_status_map,
                                   max_throttling, sensor_predictions, profile_property)

\* C11: after every tick above NONE that runs updatePowerBudget to its end, the
\* budget it returned and kept as prev_power_budget lies within
\* [min_alloc_power, max_alloc_power] of the tick's target state.
C11_BudgetWithinAllocRange ==
    [][\A s \in env.sensors, temp_value \in env.temps, sev \in env.sevs,
          max_throttling \in env.max_throttlings :
           PidTick(s, temp_value, sev, max_throttling) =>
               /\ FLe(LastTables'.min_alloc_power[LastStatus'.prev_target],
                      LastStatus'.prev_power_budget)
               /\ FLe(LastStatus'.prev_power_budget,
                      LastTables'.max_alloc_power[LastStatus'.prev_target])]_vars

\* C12 (as the code has it): after every tick above NONE that runs
\* updatePowerBudget to its end, i_budget is a number within +-i_max of the
\* tick's target state.
C12_IBudgetWithinIMaxAfterPid ==
    [][\A s \in env.sensors, temp_value \in env.temps, sev \in env.sevs,
          max_throttling \in env.max_throttlings :
           PidTick(s, temp_value, sev, max_throttling) =>
               /\ ~isnan(LastStatus'.i_budget)
               /\ Abs(LastStatus'.i_budget) <= LastTables'.i_max[LastStatus'.prev_target]]_vars

\* C12 witness: a tick at target state 3 has left i_budget at -i_max of state 3,
\* below the i_max of state 2.
C12_IBudgetHeldAtIMax ==
    /\ Ticked
    /\ LastStatus.prev_target = 3
    /\ LastStatus.i_budget = -LastTables.i_max[3]
    /\ LastTables.i_max[3] < LastTables.i_max[2]

\* C12 (as the spec has it): after every tick above NONE, i_budget is within
\* +-i_max of the tick's target state.
C12_IBudgetWithinIMax ==
    Ticked =>
        /\ ~isnan(LastStatus.i_budget)
        /\ Abs(LastStatus.i_budget) <= LastTables.i_max[LastStatus.prev_target]

\* C13: in every reachable state each entry of a sensor's pid_cdev_request_map
\* is a state of its cdev, from 0 to max_state.
C13_PidRequestIsAState ==
    \A s \in DOMAIN thermal_throttling_status_map_ :
        \A c \in DOMAIN thermal_throttling_status_map_[s].pid_cdev_request_map :
            /\ thermal_throttling_status_map_[s].pid_cdev_request_map[c] >= 0
            /\ thermal_throttling_status_map_[s].pid_cdev_request_map[c] <=
                   CoolingDeviceInfoMap[c].max_state

\* C13 witness: a tick has left c2 a budget below the power of every state, and
\* the request is max_state.
C13_BudgetBelowEveryState ==
    /\ Ticked
    /\ LastStatus.pid_power_budget_map["c2"] <
           CoolingDeviceInfoMap["c2"].state2power[CoolingDeviceInfoMap["c2"].max_state]
    /\ LastStatus.pid_cdev_request_map["c2"] = CoolingDeviceInfoMap["c2"].max_state

\* The last tick of a registered sensor has returned.
Updated == last_call.op = "update" /\ Registered(last_call.sensor) /\ ~crashed

\* The cdev's request and budget stand as the search of updateCdevRequestByPower
\* leaves them: no earlier state's power is within the budget.
FirstWithinBudget(c) ==
    LastStatus.pid_cdev_request_map[c] > 0 =>
        FGt(CoolingDeviceInfoMap[c].state2power[LastStatus.pid_cdev_request_map[c] - 1],
            I2F(LastStatus.pid_power_budget_map[c]))

WithinBudget(c) ==
    FLe(CoolingDeviceInfoMap[c].state2power[LastStatus.pid_cdev_request_map[c]],
        I2F(LastStatus.pid_power_budget_map[c]))

\* C14 (as amended): after every tick, for every cdev of the sensor's PID maps,
\* the power of the state before the request is above the budget, and the power
\* of the requested state is at or below the budget unless the request is the
\* last state, which the search reaches without comparing.
C14_RequestIsFirstStateWithinBudgetOrLast ==
    Updated =>
        \A c \in DOMAIN LastStatus.pid_power_budget_map :
            /\ FirstWithinBudget(c)
            /\ WithinBudget(c) \/
                   LastStatus.pid_cdev_request_map[c] = CoolingDeviceInfoMap[c].max_state

\* C14 witness: a tick has allocated c2 a budget of 0, below the power 5 of its
\* last state, and the request is that last state.
C14_ZeroBudgetRequestsLastState ==
    /\ Ticked
    /\ LastStatus.pid_power_budget_map["c2"] = 0
    /\ LastStatus.pid_cdev_request_map["c2"] = CoolingDeviceInfoMap["c2"].max_state
    /\ ~WithinBudget("c2")

\* C14 (as stated): after every tick, for every cdev of the sensor's PID maps,
\* the power of the requested state is at or below the budget and the power of
\* the state before it is above the budget.
C14_RequestIsFirstStateWithinBudget ==
    Updated =>
        \A c \in DOMAIN LastStatus.pid_power_budget_map :
            WithinBudget(c) /\ FirstWithinBudget(c)

\* C15: whenever allocatePowerToCdev returned false in a tick, every entry of
\* the sensor's pid_cdev_request_map is 0 when thermalThrottlingUpdate has
\* returned.
C15_FailedAllocationZeroesRequests ==
    Updated /\ ret = "false" =>
        \A c \in DOMAIN LastStatus.pid_cdev_request_map :
            LastStatus.pid_cdev_request_map[c] = 0

\* A tick of sensor s with these arguments has just returned.
TickOf(s, temp_value, sev, max_throttling) ==
    /\ Registered(s) /\ ~crashed'
    /\ last_call' = Called("update", s, sev)
    /\ \E time_elapsed_ms \in env.dts, power_status_map \in env.power_status_maps,
          sensor_predictions \in env.predictions, profile_property \in env.properties :
           ThermalThrottlingUpdate(s, temp_value, sev, time_elapsed_ms, power_status_map,
                                   max_throttling, sensor_predictions, profile_property)

\* thermalThrottlingUpdate called again on the status st and the registry reg
\* that a tick left, with that tick's arguments and no time elapsed.
SecondCall(st, reg, s, temp_value, sev, max_throttling) ==
    thermalThrottlingUpdate(st, reg, temp_value, sensor_info_map[s], sev, 0,
                            CHOOSE m \in env.power_status_maps : TRUE,
                            CoolingDeviceInfoMap, max_throttling, <<>>, st.profile,
                            env.fp_to_int).st

\* The outputs of a tick: the power budget, the budget and the request of each
\* PID cdev, and the hard-limit requests.
SameOutputs(st1, st2) ==
    /\ st2.prev_power_budget = st1.prev_power_budget
    /\ st2.pid_power_budget_map = st1.pid_power_budget_map
    /\ st2.pid_cdev_request_map = st1.pid_cdev_request_map
    /\ st2.hardlimit_cdev_request_map = st1.hardlimit_cdev_request_map

\* st2 has the outputs of st1 if it has its integral term.
SameOutputsWhenSettled(st1, st2) == st2.i_budget = st1.i_budget => SameOutputs(st1, st2)

\* C16 (as amended): a second call of thermalThrottlingUpdate with the arguments of
\* the first and no time elapsed yields the outputs of the first when the first
\* neither changed the target state nor ran inside a transient cycle, its
\* derivative term was 0, and the second leaves the integral term as the first
\* left it.
C16_SecondCallSameOutputsWhenSettled ==
    [][\A s \in env.sensors, temp_value \in env.temps, sev \in env.sevs,
          max_throttling \in env.max_throttlings :
           /\ last_call' = Called("update", s, sev)
           /\ thermal_throttling_status_map_[s].tran_cycle = 0
           /\ thermal_throttling_status_map_'[s].tran_cycle = 0
           /\ thermal_throttling_status_map_'[s].prev_target =
                  thermal_throttling_status_map_[s].prev_target
           /\ \A time_elapsed_ms \in env.dts :
                  DBudget(sensor_info_map[s].throttling_info,
                          thermal_throttling_status_map_'[s].prev_target,
                          TickErr(s, temp_value, sev),
                          thermal_throttling_status_map_[s].prev_err,
                          time_elapsed_ms) = 0
           /\ TickOf(s, temp_value, sev, max_throttling)
           => SameOutputsWhenSettled(
                  thermal_throttling_status_map_'[s],
                  SecondCall(thermal_throttling_status_map_'[s], cdev_all_request_map_',
                             s, temp_value, sev, max_throttling))]_vars

\* C16 witness: a tick above NONE at the temperature of prev_err has left the
\* sensor outside a transient cycle with c2 throttled, and a second call with no
\* time elapsed leaves the integral term as it is.
C16_SettledTickRepeated ==
    /\ Ticked
    /\ LastStatus.tran_cycle = 0
    /\ LastStatus.pid_cdev_request_map["c2"] > 0
    /\ \E temp_value \in env.temps :
           /\ LastStatus.prev_err = TickErr(last_call.sensor, temp_value, last_call.sev)
           /\ SecondCall(LastStatus, cdev_all_request_map_, last_call.sensor, temp_value,
                         last_call.sev, FALSE).i_budget = LastStatus.i_budget
           /\ SameOutputs(LastStatus,
                          SecondCall(LastStatus, cdev_all_request_map_, last_call.sensor,
                                     temp_value, last_call.sev, FALSE))

\* C16 (as stated): a second call of thermalThrottlingUpdate with the arguments of
\* the first and no time elapsed, on the state the first left, yields the outputs
\* of the first.
C16_SecondCallSameOutputs ==
    [][\A s \in env.sensors, temp_value \in env.temps, sev \in env.sevs,
          max_throttling \in env.max_throttlings :
           TickOf(s, temp_value, sev, max_throttling)
           => SameOutputs(thermal_throttling_status_map_'[s],
                          SecondCall(thermal_throttling_status_map_'[s],
                                     cdev_all_request_map_', s, temp_value, sev,
                                     max_throttling))]_vars

\* The integral term that the tick starts from, and its value held within
\* +-i_max of the target state t.
IStart(st, ti) == IF isnan(st.i_budget) THEN ti.i_default ELSE st.i_budget

IHeld(i, ti, t) ==
    IF FGt(Abs(i), ti.i_max[t]) THEN FMul(ti.i_max[t], IF FGt(i, 0) THEN 1 ELSE -1) ELSE i

\* What lines 250-254 ask for before a negative error is accumulated.
MayAccumulate(st, st1, ti, err, sev) ==
    /\ FLt(err, ti.i_cutoff[st1.prev_target])
    /\ FGt(st.prev_power_budget, ti.min_alloc_power[st1.prev_target])
    /\ \E c \in Range(ti.binded_cdev_info_map.keys) :
           st.pid_cdev_request_map[c] < ti.binded_cdev_info_map.at[c].cdev_ceiling[sev]

\* The two halves of C20 for a tick with error err that took st to st1.
NoWindup(st, st1, ti, err, sev) ==
    FLt(err, 0) =>
        /\ st1.i_budget # IHeld(IStart(st, ti), ti, st1.prev_target) =>
               MayAccumulate(st, st1, ti, err, sev)
        /\ st.prev_power_budget = ti.min_alloc_power[st1.prev_target]
               /\ st.i_budget = ti.i_default
               => st1.i_budget = ti.i_default

\* C20: in a tick with err < 0 that runs the PID, i_budget moves by accumulation
\* only if err < i_cutoff[target], prev_power_budget > min_alloc_power[target] and
\* some bound cdev is below its ceiling; and a tick with err < 0 that starts from
\* prev_power_budget = min_alloc_power[target] and i_budget = i_default leaves
\* i_budget = i_default.
C20_NoWindupAtMinBudget ==
    [][\A s \in env.sensors, temp_value \in env.temps, sev \in env.sevs,
          max_throttling \in env.max_throttlings :
           PidTick(s, temp_value, sev, max_throttling) =>
               NoWindup(thermal_throttling_status_map_[s],
                        thermal_throttling_status_map_'[s],
                        sensor_info_map[s].throttling_info,
                        TickErr(s, temp_value, sev), sev)]_vars

\* C20 witness: a tick with a negative error has left the budget at
\* min_alloc_power and i_budget at i_default, as it found them.
C20_MinBudgetIDefault ==
    /\ Ticked
    /\ FLt(LastStatus.prev_err, 0)
    /\ LastStatus.prev_power_budget = LastTables.min_alloc_power[LastStatus.prev_target]
    /\ LastStatus.i_budget = LastTables.i_default
    /\ LastStatus.tran_cycle = 0

-----------------------------------------------------------------------------
(* SpecOpenLoop: the control loop with every gain 0, so that the clamped     *)
(* budget of a tick is s_power of its target state, over every s_power table *)
(* that is NaN outside a set of severities up to MaxTarget.                  *)

MaxTarget == 3

OpenLoopInfo(valid) ==
    [DefaultSensorInfo EXCEPT
        !.throttling_info =
            [DefaultThrottlingInfo EXCEPT
                !.s_power = [sev \in Severities |->
                                IF sev \in valid THEN 8 * sev + 8 ELSE NaN],
                !.i_max = ArrAll(0), !.i_cutoff = ArrAll(0),
                !.min_alloc_power = ArrAll(0), !.max_alloc_power = ArrAll(100),
                !.tran_cycle = 4,
                !.binded_cdev_info_map = BMap(<<"c2">>, [c \in {"c2"} |-> PidC2])]]

InitOpenLoop ==
    /\ ThreadsIdle
    /\ \E valid \in SUBSET (NONE..MaxTarget) :
           sensor_info_map = [s \in {"s1"} |-> OpenLoopInfo(valid)]
    /\ thermal_throttling_status_map_ = [s \in {"s1"} |-> RegisteredPid.st]
    /\ cdev_all_request_map_ = RegisteredPid.reg
    /\ crashed = FALSE
    /\ last_call = Called("none", "", NONE)
    /\ ret = "none"
    /\ cooling_devices_to_update = {}
    /\ stats_requests = {}
    /\ \E fp_to_int \in {"saturate", "indefinite"} :
           env = [sensors |-> {"s1"}, null_infos |-> {FALSE},
                  temps |-> {MaxTemp},
                  sevs |-> NONE..(MaxTarget + 1), dts |-> {1},
                  power_status_maps |-> {[r \in {"r1"} |-> 25]},
                  max_throttlings |-> {FALSE}, predictions |-> {<<>>},
                  properties |-> {""}, fp_to_int |-> fp_to_int]

SpecOpenLoop == InitOpenLoop /\ [][NextPid]_vars

\* The severities with an s_power above, and at or below, the last tick's severity.
ValidAbove == {v \in Severities : v > last_call.sev /\ ~isnan(LastTables.s_power[v])}

ValidAtOrBelow == {v \in Severities : v <= last_call.sev /\ ~isnan(LastTables.s_power[v])}

\* C17 (as amended): the target state that a tick above NONE selects is the
\* lowest severity above curr whose s_power is not NaN when there is one,
\* otherwise the highest severity at or below curr whose s_power is not NaN,
\* and 0 when every s_power is NaN.
C17_TargetIsNextValidSeverity ==
    Ticked =>
        LastStatus.prev_target =
            IF ValidAbove # {} THEN CHOOSE v \in ValidAbove : \A w \in ValidAbove : v <= w
            ELSE IF ValidAtOrBelow # {}
            THEN CHOOSE v \in ValidAtOrBelow : \A w \in ValidAtOrBelow : v >= w
            ELSE 0

\* C17 witness: a tick whose severity and a severity above it both have an
\* s_power has selected the one above.
C17_TargetAboveCurrent ==
    /\ Ticked
    /\ ~isnan(LastTables.s_power[last_call.sev])
    /\ ValidAbove # {}
    /\ LastStatus.prev_target > last_call.sev

\* C17 (as stated): the target state that a tick above NONE selects is the highest
\* severity at or below curr whose s_power is not NaN when there is one, and
\* otherwise the lowest severity above curr whose s_power is not NaN.
C17_TargetIsHighestAtOrBelow ==
    Ticked =>
        /\ ValidAtOrBelow # {} =>
               LastStatus.prev_target =
                   CHOOSE v \in ValidAtOrBelow : \A w \in ValidAtOrBelow : v >= w
        /\ ValidAtOrBelow = {} /\ ValidAbove # {} =>
               LastStatus.prev_target =
                   CHOOSE v \in ValidAbove : \A w \in ValidAbove : v <= w

\* The status of the ticked sensor before and after a tick above NONE.
TickedNow == Ticked' /\ LastStatus'.prev_target # NONE

TargetChanged ==
    /\ thermal_throttling_status_map_[last_call'.sensor].prev_target # NONE
    /\ LastStatus'.prev_target # thermal_throttling_status_map_[last_call'.sensor].prev_target

\* The tran_cycle that the tick blends with: N - 1 in the tick of a target change,
\* otherwise what the tick before left.
BlendCycle ==
    IF TargetChanged THEN LastTables'.tran_cycle - 1
    ELSE thermal_throttling_status_map_[last_call'.sensor].tran_cycle

\* C19 (as amended): with every gain 0 and tran_cycle = N = 4, the tick of a
\* target change records budget_transient = previous budget - s_power[target] and
\* adds (N-1)/N of it to the clamped budget s_power[target], and each tick after
\* it with no further change adds one N-th less: the k-th tick counted from the
\* tick of the change adds (N-k)/N, so tick N and every later tick add 0.
C19_TransientStartsBelowWhole ==
    [][TickedNow =>
           /\ TargetChanged =>
                  LastStatus'.budget_transient =
                      FSub(thermal_throttling_status_map_[last_call'.sensor].prev_power_budget,
                           LastTables'.s_power[LastStatus'.prev_target])
           /\ LastStatus'.prev_power_budget =
                  FAdd(LastTables'.s_power[LastStatus'.prev_target],
                       FDiv(FMul(LastStatus'.budget_transient, BlendCycle),
                            LastTables'.tran_cycle))
           /\ LastStatus'.tran_cycle = IF BlendCycle > 0 THEN BlendCycle - 1 ELSE 0]_vars

\* C19 witness: the tick of a target change has added 3/4 of a budget_transient
\* that is not 0, and left tran_cycle 2.
C19_ChangeTickAddsThreeQuarters ==
    /\ Ticked
    /\ LastTables.tran_cycle = 4
    /\ LastStatus.tran_cycle = 2
    /\ LastStatus.budget_transient # 0 /\ ~isnan(LastStatus.budget_transient)
    /\ LastStatus.prev_power_budget =
           FAdd(LastTables.s_power[LastStatus.prev_target],
                FDiv(FMul(LastStatus.budget_transient, 3), 4))

\* C19 (as stated), for k = 1: the tick of a target change adds N/N of
\* budget_transient to the clamped budget.
C19_ChangeTickAddsWhole ==
    [][TickedNow /\ TargetChanged =>
           LastStatus'.prev_power_budget =
               FAdd(LastTables'.s_power[LastStatus'.prev_target],
                    LastStatus'.budget_transient)]_vars

-----------------------------------------------------------------------------
(* SpecColdStart: two freshly registered sensors whose PID cdevs carry a      *)
(* weight at every severity, NONE included.  s1 binds c1, with the power rail *)
(* r1 and a hard limit from severity 3 up, and c2, with no rail; neither has  *)
(* a power threshold.  s2 binds c1 with the rail, power thresholds and the    *)
(* STEPWISE release logic.                                                    *)

ColdC1 ==
    [S1C1 EXCEPT !.cdev_weight_for_pid = ArrAll(1), !.power_thresholds = ArrAll(NaN),
                 !.release_logic = "NONE"]

ColdC2 == [S1C2 EXCEPT !.cdev_weight_for_pid = ArrAll(1)]

ReleaseC1 == [S1C1 EXCEPT !.cdev_weight_for_pid = ArrAll(1)]

ColdInfo ==
    [PidInfo EXCEPT
        !.throttling_info.binded_cdev_info_map =
            BMap(<<"c1", "c2">>, [c \in {"c1", "c2"} |-> IF c = "c1" THEN ColdC1 ELSE ColdC2])]

ReleaseInfo ==
    [PidInfo EXCEPT
        !.throttling_info.binded_cdev_info_map = BMap(<<"c1">>, [c \in {"c1"} |-> ReleaseC1])]

RegisteredCold ==
    RegisterLoop(InitialStatus, EmptyMap, ColdInfo.throttling_info.binded_cdev_info_map,
                 DOMAIN CoolingDeviceInfoMap, 1)

RegisteredRelease ==
    RegisterLoop(InitialStatus, RegisteredCold.reg,
                 ReleaseInfo.throttling_info.binded_cdev_info_map,
                 DOMAIN CoolingDeviceInfoMap, 1)

InitColdStart ==
    /\ ThreadsIdle
    /\ sensor_info_map = [s \in {"s1", "s2"} |-> IF s = "s1" THEN ColdInfo ELSE ReleaseInfo]
    /\ thermal_throttling_status_map_ =
           [s \in {"s1", "s2"} |-> IF s = "s1" THEN RegisteredCold.st ELSE RegisteredRelease.st]
    /\ cdev_all_request_map_ = RegisteredRelease.reg
    /\ crashed = FALSE
    /\ last_call = Called("none", "", NONE)
    /\ ret = "none"
    /\ cooling_devices_to_update = {}
    /\ stats_requests = {}
    /\ \E fp_to_int \in {"saturate", "indefinite"} :
           env = [sensors |-> {"s1", "s2"}, null_infos |-> {FALSE},
                  temps |-> {MaxTemp},
                  sevs |-> {NONE, 1}, dts |-> {1},
                  power_status_maps |-> {[r \in {"r1"} |-> 25]},
                  max_throttlings |-> {FALSE}, predictions |-> {<<>>},
                  properties |-> {""}, fp_to_int |-> fp_to_int]

NextColdStart == UpdateStep \/ ComputeStep

SpecColdStart == InitColdStart /\ [][NextColdStart]_vars

\* The sensor has run no tick above NONE: no PID request, no hard limit, no
\* recorded vote, and for every PID cdev a budget of at least its state2power[0].
Cold(st) ==
    /\ isnan(st.prev_power_budget)
    /\ \A c \in DOMAIN st.pid_cdev_request_map : st.pid_cdev_request_map[c] = 0
    /\ \A c \in DOMAIN st.hardlimit_cdev_request_map : st.hardlimit_cdev_request_map[c] = 0
    /\ \A c \in DOMAIN st.cdev_status_map : st.cdev_status_map[c] = 0
    /\ \A c \in DOMAIN st.pid_power_budget_map :
           FGe(I2F(st.pid_power_budget_map[c]), CoolingDeviceInfoMap[c].state2power[0])

\* The sensor's PID budgets are as registration left them.
Unallocated(st) ==
    \A c \in DOMAIN st.pid_power_budget_map : st.pid_power_budget_map[c] = INT_MAX

\* C18 (as amended): for a sensor with no throttling_release_map entry that has
\* run no tick above NONE, a tick at NONE leaves every PID request 0 and every
\* PID budget at or above state2power[0] of its cdev, and a call of
\* computeCoolingDevicesRequest at NONE reports no changed cdev; the sensor stays
\* so through any number of such calls.
C18_ColdStartRequestsNothing ==
    [][\A s \in env.sensors :
           /\ Registered(s)
           /\ DOMAIN thermal_throttling_status_map_[s].throttling_release_map = {}
           /\ Cold(thermal_throttling_status_map_[s])
           /\ last_call'.sensor = s /\ last_call'.sev = NONE
           => /\ ~crashed'
              /\ Cold(thermal_throttling_status_map_'[s])
              /\ cooling_devices_to_update' = {}]_vars

\* C18 witness: a tick at NONE has allocated c2 its state2power[0], and the call
\* of computeCoolingDevicesRequest at NONE after it has reported no cdev.
C18_ColdStartAllocated ==
    /\ last_call = Called("compute", "s1", NONE)
    /\ ~crashed
    /\ Cold(LastStatus)
    /\ LastStatus.pid_power_budget_map["c2"] = CoolingDeviceInfoMap["c2"].state2power[0]
    /\ cooling_devices_to_update = {}

\* C18 (as stated): a tick at NONE of a freshly registered sensor changes neither
\* pid_power_budget_map nor pid_cdev_request_map, and the call of
\* computeCoolingDevicesRequest at NONE after it reports no changed cdev, through
\* any number of such calls.
C18_ColdStartChangesNothing ==
    [][\A s \in env.sensors :
           /\ Registered(s)
           /\ Cold(thermal_throttling_status_map_[s])
           /\ Unallocated(thermal_throttling_status_map_[s])
           /\ last_call'.sensor = s /\ last_call'.sev = NONE
           => /\ ~crashed'
              /\ Cold(thermal_throttling_status_map_'[s])
              /\ Unallocated(thermal_throttling_status_map_'[s])
              /\ cooling_devices_to_update' = {}]_vars

-----------------------------------------------------------------------------
(* SpecAlloc: the control loop of one sensor with every gain 0 and no        *)
(* transient cycle, whose budget is therefore s_power of the target state    *)
(* (30 at state 2, 12 at state 3), shared by c1 on rail r1 and c2 on rail r2 *)
(* with weight 1 each; both rails always report a power.                     *)

MaxPower == 25

AllocC(power_rail, cdev_ceiling) ==
    [DefaultBindedCdevInfo EXCEPT
        !.cdev_weight_for_pid = Arr(NaN, 1, 1, 1, 1, 1, 1),
        !.power_rail = power_rail,
        !.cdev_ceiling = ArrAll(cdev_ceiling)]

AllocInfo ==
    [DefaultSensorInfo EXCEPT
        !.throttling_info =
            [DefaultThrottlingInfo EXCEPT
                !.s_power = Arr(NaN, NaN, 30, 12, NaN, NaN, NaN),
                !.i_max = ArrAll(0), !.i_cutoff = ArrAll(0),
                !.min_alloc_power = ArrAll(0), !.max_alloc_power = ArrAll(100),
                !.binded_cdev_info_map =
                    BMap(<<"c1", "c2">>,
                         [c \in {"c1", "c2"} |->
                             IF c = "c1" THEN AllocC("r1", 3) ELSE AllocC("r2", 2)])]]

RegisteredAlloc ==
    RegisterLoop(InitialStatus, EmptyMap, AllocInfo.throttling_info.binded_cdev_info_map,
                 DOMAIN CoolingDeviceInfoMap, 1)

InitAlloc ==
    /\ ThreadsIdle
    /\ sensor_info_map = [s \in {"s1"} |-> AllocInfo]
    /\ thermal_throttling_status_map_ = [s \in {"s1"} |-> RegisteredAlloc.st]
    /\ cdev_all_request_map_ = RegisteredAlloc.reg
    /\ crashed = FALSE
    /\ last_call = Called("none", "", NONE)
    /\ ret = "none"
    /\ cooling_devices_to_update = {}
    /\ stats_requests = {}
    /\ \E fp_to_int \in {"saturate", "indefinite"} :
           env = [sensors |-> {"s1"}, null_infos |-> {FALSE},
                  temps |-> {MaxTemp},
                  sevs |-> NONE..MaxSeverity, dts |-> {1},
                  power_status_maps |->
                      {[r \in {"r1", "r2"} |-> IF r = "r1" THEN p1 ELSE p2] :
                           p1 \in {4, MaxPower}, p2 \in {20, MaxPower}},
                  max_throttlings |-> {FALSE}, predictions |-> {<<>>},
                  properties |-> {""}, fp_to_int |-> fp_to_int]

SpecAlloc == InitAlloc /\ [][NextPid]_vars

\* A tick above NONE of the registered sensor s that read power_status_map.
TickWithPower(s, sev, power_status_map) ==
    /\ sev # NONE /\ Registered(s) /\ ~crashed'
    /\ last_call' = Called("update", s, sev)
    /\ \E temp_value \in env.temps, time_elapsed_ms \in env.dts,
          max_throttling \in env.max_throttlings, sensor_predictions \in env.predictions,
          profile_property \in env.properties :
           ThermalThrottlingUpdate(s, temp_value, sev, time_elapsed_ms, power_status_map,
                                   max_throttling, sensor_predictions, profile_property)

RECURSIVE SumOver(_, _)
SumOver(f, S) ==
    IF S = {} THEN 0
    ELSE LET c == CHOOSE c \in S : TRUE IN FAdd(f[c], SumOver(f, S \ {c}))

\* The cdevs that the first pass excludes: request 0 and a share of the budget
\* above the measured power of the rail.  w and p map each cdev to its weight
\* and to its rail's power.
LowPowerCdevs(st, w, p, total_power_budget) ==
    {c \in DOMAIN w :
        /\ st.pid_cdev_request_map[c] = 0
        /\ FGt(FSub(Share(total_power_budget, w[c], SumOver(w, DOMAIN w)), p[c]), 0)}

\* The share of cdev c in the second pass, the budget and the weight being reduced
\* by the power and the weights of the excluded cdevs.
SecondPassShare(c, w, p, total_power_budget, low) ==
    Share(FSub(total_power_budget, SumOver(p, low)), w[c],
          FSub(SumOver(w, DOMAIN w), SumOver(w, low)))

\* A budget limited to 0 and to state2power[0] of the cdev, as it is stored.
Stored(c, b, fp_to_int) ==
    F2I(IF FGt(b, CoolingDeviceInfoMap[c].state2power[0])
        THEN CoolingDeviceInfoMap[c].state2power[0]
        ELSE IF FLt(b, 0) THEN 0 ELSE b, fp_to_int)

\* The budget that the second pass stores for a cdev with rail data: the stored
\* budget moved by the adjustment, scaled down when the rail draws more than
\* the stored budget.
AdjustedBudget(c, curr, adjustment, avg_power, fp_to_int) ==
    Stored(c,
           I2F(F2I(IF FGt(avg_power, I2F(curr))
                   THEN FAdd(I2F(curr), FDiv(FMul(adjustment, I2F(curr)), avg_power))
                   ELSE FAdd(I2F(curr), adjustment), fp_to_int)),
           fp_to_int)

\* The budget of c after the tick agrees with the second pass: unchanged for an
\* excluded cdev and for one at max_state that would have to reduce power,
\* adjusted otherwise.
SecondPassAdjusts(c, st, st1, w, p, low, fp_to_int) ==
    LET adjustment ==
            FSub(SecondPassShare(c, w, p, st1.prev_power_budget, low), p[c])
    IN  st1.pid_power_budget_map[c] =
            IF c \in low THEN st.pid_power_budget_map[c]
            ELSE IF /\ FLt(adjustment, 0)
                    /\ st.pid_cdev_request_map[c] = CoolingDeviceInfoMap[c].max_state
            THEN st.pid_power_budget_map[c]
            ELSE AdjustedBudget(c, st.pid_power_budget_map[c], adjustment, p[c], fp_to_int)

\* The budget of c after the tick is its share of the second pass.
SecondPassShares(c, st1, w, p, low, fp_to_int) ==
    c \notin low =>
        st1.pid_power_budget_map[c] =
            Stored(c, SecondPassShare(c, w, p, st1.prev_power_budget, low), fp_to_int)

\* The weights of the sensor's cdevs at a severity, and the power of their rails.
WeightOf(s, sev) ==
    [c \in Range(sensor_info_map[s].throttling_info.binded_cdev_info_map.keys) |->
        sensor_info_map[s].throttling_info.binded_cdev_info_map.at[c].cdev_weight_for_pid[sev]]

PowerOf(s, power_status_map) ==
    [c \in Range(sensor_info_map[s].throttling_info.binded_cdev_info_map.keys) |->
        power_status_map[sensor_info_map[s].throttling_info.binded_cdev_info_map.at[c].power_rail]]

\* C21 (as amended): with rail data for every cdev, a cdev with request 0 whose
\* share of the budget exceeds its measured power is excluded in the first pass
\* and keeps its budget; the second pass runs with the budget reduced by the
\* excluded cdevs' power and the weight by their weights, and moves the stored
\* budget of each remaining cdev by (its share - its measured power), scaled by
\* stored budget / measured power when the rail draws more than the stored
\* budget, and limited to 0 and state2power[0].
C21_SecondPassAdjustsStoredBudget ==
    [][\A s \in env.sensors, sev \in env.sevs, power_status_map \in env.power_status_maps :
           TickWithPower(s, sev, power_status_map) =>
               \A c \in DOMAIN WeightOf(s, sev) :
                   SecondPassAdjusts(
                       c, thermal_throttling_status_map_[s],
                       thermal_throttling_status_map_'[s],
                       WeightOf(s, sev), PowerOf(s, power_status_map),
                       LowPowerCdevs(thermal_throttling_status_map_[s], WeightOf(s, sev),
                                     PowerOf(s, power_status_map),
                                     thermal_throttling_status_map_'[s].prev_power_budget),
                       env.fp_to_int)]_vars

\* C21 (as stated): with rail data for every cdev, the second pass allocates to
\* each cdev that the first pass did not exclude total_budget * weight /
\* total_weight, the budget and the weight being reduced by the excluded cdevs.
C21_SecondPassAllocatesShare ==
    [][\A s \in env.sensors, sev \in env.sevs, power_status_map \in env.power_status_maps :
           TickWithPower(s, sev, power_status_map) =>
               \A c \in DOMAIN WeightOf(s, sev) :
                   SecondPassShares(
                       c, thermal_throttling_status_map_'[s],
                       WeightOf(s, sev), PowerOf(s, power_status_map),
                       LowPowerCdevs(thermal_throttling_status_map_[s], WeightOf(s, sev),
                                     PowerOf(s, power_status_map),
                                     thermal_throttling_status_map_'[s].prev_power_budget),
                       env.fp_to_int)]_vars

\* C21 witness: ticks have left c1, never allocated, with request 0 and c2 with a
\* budget between the powers of its states, on a build whose conversions saturate.
C21_ExcludedAndAdjusted ==
    /\ Ticked
    /\ env.fp_to_int = "saturate"
    /\ LastStatus.pid_cdev_request_map["c1"] = 0
    /\ LastStatus.pid_power_budget_map["c1"] = INT_MAX
    /\ LastStatus.pid_power_budget_map["c2"] > 0
    /\ LastStatus.pid_power_budget_map["c2"] < CoolingDeviceInfoMap["c2"].state2power[0]

-----------------------------------------------------------------------------
(* Profile selection (parseProfileProperty, lines 51-71) as one step of the tick *)

\* The step of the tick that runs parseProfileProperty on a sensor with profiles.
ProfileStep ==
    /\ pc["tick"] = "profile"
    /\ pc'["tick"] # "profile"
    /\ DOMAIN TickInfo.throttling_info.profile_map # {}

\* The profile the property value selects.
SelectedProfile(si, profile) ==
    IF profile = "" \/ profile \in DOMAIN si.throttling_info.profile_map
    THEN profile ELSE ""

\* C22: profile selection sets the sensor's profile to the property value when
\* that value is empty or a key of the sensor's profile_map and to the empty
\* (default) profile otherwise, and changes nothing else: prev_err, i_budget,
\* prev_target, prev_power_budget, tran_cycle and every per-cdev map of the
\* sensor, and every other sensor's status, keep their values.
C22_ProfileSelectionChangesOnlyProfile ==
    [][ProfileStep =>
          thermal_throttling_status_map_' =
              [thermal_throttling_status_map_ EXCEPT
                  ![frame.s] = [@ EXCEPT !.profile =
                                   SelectedProfile(TickInfo, frame.profile_property)]]]_vars

\* C22 witness: an unknown property value has just selected the default profile
\* on a sensor whose PID state a previous tick has filled.
C22_UnknownNameSelectedDefault ==
    /\ pc["tick"] \in {"allocate", "severity"}
    /\ frame.profile_property = "px"
    /\ DOMAIN TickInfo.throttling_info.profile_map # {}
    /\ TickStatus.profile = ""
    /\ ~isnan(TickStatus.prev_err)
    /\ ~isnan(TickStatus.i_budget)
    /\ TickStatus.prev_target # NONE

-----------------------------------------------------------------------------
(* The combiner on a cdev with some of its three entries missing *)

\* The status of a sensor whose cdev c1 has the entries named in present: a pid
\* request (registered by weight), a hard-limit request (registered by limit),
\* a release step (registered by power threshold).
CombineEntries(present, pid_cdev_request, hardlimit_cdev_request, release_step) ==
    [InitialStatus EXCEPT
        !.pid_power_budget_map =
            [c \in {"c1"} \cap (IF "pid" \in present THEN {"c1"} ELSE {}) |-> INT_MAX],
        !.pid_cdev_request_map =
            [c \in {"c1"} \cap (IF "pid" \in present THEN {"c1"} ELSE {}) |->
                pid_cdev_request],
        !.hardlimit_cdev_request_map =
            [c \in {"c1"} \cap (IF "hard" \in present THEN {"c1"} ELSE {}) |->
                hardlimit_cdev_request],
        !.throttling_release_map =
            [c \in {"c1"} \cap (IF "release" \in present THEN {"c1"} ELSE {}) |->
                release_step],
        !.cdev_status_map = [c \in {"c1"} |-> 0]]

\* One vote of 0 in the registry for each of the pid and hard-limit entries.
CombineVotes(present) ==
    IF {"pid", "hard"} \subseteq present
    THEN SetToBag({0}) (+) SetToBag({0})
    ELSE SetToBag({0})

InitCombineEntries ==
    /\ ThreadsIdle
    /\ \E cdev_floor \in 0..MaxRequest, cdev_ceiling \in 0..MaxRequest :
           sensor_info_map = [s \in {"s1"} |-> CombineInfo(cdev_floor, cdev_ceiling)]
    /\ \E present \in SUBSET {"pid", "hard", "release"} :
           /\ present \cap {"pid", "hard"} # {}
           /\ \E pid_cdev_request \in 0..MaxRequest,
                 hardlimit_cdev_request \in 0..MaxRequest,
                 release_step \in (-MaxRequest)..MaxRequest :
                  thermal_throttling_status_map_ =
                      [s \in {"s1"} |->
                          CombineEntries(present, pid_cdev_request,
                                         hardlimit_cdev_request, release_step)]
           /\ cdev_all_request_map_ = [c \in {"c1"} |-> CombineVotes(present)]
    /\ crashed = FALSE
    /\ last_call = Called("none", "", NONE)
    /\ ret = "none"
    /\ cooling_devices_to_update = {}
    /\ stats_requests = {}
    /\ env = [sensors |-> {"s1"}, null_infos |-> {FALSE}, temps |-> {MaxTemp},
              sevs |-> {NONE, 6}, dts |-> {1},
              power_status_maps |-> {[r \in {"r1"} |-> 25]},
              max_throttlings |-> {FALSE}, predictions |-> {<<>>},
              properties |-> {""}, fp_to_int |-> "saturate"]

SpecCombineEntries == InitCombineEntries /\ [][ComputeStep]_vars

\* The entry of cdev c1 in a map of the sensor's status, 0 when it has none.
EntryOrZero(m) == IF "c1" \in DOMAIN m THEN m["c1"] ELSE 0

\* The request as the three steps give it: the larger of pid and hard; with a
\* non-zero release step rs, 0 if rs reaches it and rs less otherwise, then at
\* least the floor; at last at most the ceiling.
SteppedRequest(pid, hard, rs, floor, ceiling) ==
    LET req0 == IF pid >= hard THEN pid ELSE hard
        req1 == IF rs >= req0 THEN 0 ELSE req0 - rs
        req2 == IF req1 >= floor THEN req1 ELSE floor
        req3 == IF rs # 0 THEN req2 ELSE req0
    IN  IF req3 <= ceiling THEN req3 ELSE ceiling

\* C23: for the cdev in cdev_status_map the request a compute records is
\* req = max(pid, hard), then with release_step rs # 0 (rs >= req ? 0 : req - rs)
\* raised to the floor of the current severity, then lowered to its ceiling;
\* a missing pid, hard-limit or release entry counts as 0 and the floor is not
\* applied when rs = 0.
C23_RequestIsMaxReleasedFlooredCapped ==
    last_call.op = "compute" =>
        CombineRequest =
            SteppedRequest(EntryOrZero(CombineOf.pid_cdev_request_map),
                           EntryOrZero(CombineOf.hardlimit_cdev_request_map),
                           EntryOrZero(CombineOf.throttling_release_map),
                           CombineFloor, CombineCeiling)

\* C23 witness: a compute on a cdev with no pid entry and no release entry has
\* recorded its hard-limit request, below the floor and the ceiling.
C23_MissingEntriesNoFloor ==
    /\ last_call.op = "compute"
    /\ DOMAIN CombineOf.pid_cdev_request_map = {}
    /\ DOMAIN CombineOf.throttling_release_map = {}
    /\ CombineRequest = CombineOf.hardlimit_cdev_request_map["c1"]
    /\ CombineRequest < CombineFloor
    /\ CombineRequest < CombineCeiling

-----------------------------------------------------------------------------
(* throttlingReleaseUpdate under each release policy (lines 657-752) *)

ReleaseLogics == {"NONE", "INCREASE", "DECREASE", "STEPWISE", "RELEASE_TO_FLOOR"}

\* The average powers a tick may read for rail r1, the threshold being 20:
\* not measured yet, negative, under and over the threshold.
RailPowers == {NaN, -1, 10, 25}

\* A binding of c1 by hard limit, with a power threshold on rail r1.
PolicyC1(release_logic, high_power_check, throttling_with_power_link) ==
    [DefaultBindedCdevInfo EXCEPT
        !.limit_info = Arr(0, 1, 2, 3, 3, 3, 3),
        !.power_rail = "r1",
        !.power_thresholds = Arr(NaN, 20, 20, 20, 20, 20, 20),
        !.high_power_check = high_power_check,
        !.release_logic = release_logic,
        !.throttling_with_power_link = throttling_with_power_link]

PolicyInfo(release_logic, high_power_check, throttling_with_power_link) ==
    [DefaultSensorInfo EXCEPT
        !.throttling_info =
            [DefaultThrottlingInfo EXCEPT
                !.binded_cdev_info_map =
                    BMap(<<"c1">>,
                         [c \in {"c1"} |->
                             PolicyC1(release_logic, high_power_check,
                                      throttling_with_power_link)])]]

RegisteredPolicy ==
    RegisterLoop(InitialStatus, EmptyMap,
                 PolicyInfo("NONE", FALSE, FALSE).throttling_info.binded_cdev_info_map,
                 DOMAIN CoolingDeviceInfoMap, 1)

InitRelease ==
    /\ ThreadsIdle
    /\ \E release_logic \in ReleaseLogics, high_power_check \in BOOLEAN,
          throttling_with_power_link \in BOOLEAN :
           sensor_info_map =
               [s \in {"s1"} |->
                   PolicyInfo(release_logic, high_power_check, throttling_with_power_link)]
    /\ thermal_throttling_status_map_ = [s \in {"s1"} |-> RegisteredPolicy.st]
    /\ cdev_all_request_map_ = RegisteredPolicy.reg
    /\ crashed = FALSE
    /\ last_call = Called("none", "", NONE)
    /\ ret = "none"
    /\ cooling_devices_to_update = {}
    /\ stats_requests = {}
    /\ env = [sensors |-> {"s1"}, null_infos |-> {FALSE}, temps |-> {MaxTemp},
              sevs |-> {NONE, 2}, dts |-> {1},
              power_status_maps |-> {[r \in {"r1"} |-> p] : p \in RailPowers},
              max_throttlings |-> {FALSE}, predictions |-> {<<>>},
              properties |-> {""}, fp_to_int |-> "saturate"]

SpecRelease == InitRelease /\ [][NextPid]_vars

\* A step that is a tick of the registered sensor s at severity sev in which
\* rail r1 reads avg_power.
ReleaseTick(s, sev, avg_power) ==
    /\ Registered(s) /\ ~crashed'
    /\ last_call' = Called("update", s, sev)
    /\ \E temp_value \in env.temps, time_elapsed_ms \in env.dts,
          max_throttling \in env.max_throttlings, sensor_predictions \in env.predictions,
          profile_property \in env.properties :
           ThermalThrottlingUpdate(s, temp_value, sev, time_elapsed_ms,
                                   [r \in {"r1"} |-> avg_power],
                                   max_throttling, sensor_predictions, profile_property)

\* The binding of c1 and its release step for sensor s1.
PolicyOf == sensor_info_map["s1"].throttling_info.binded_cdev_info_map.at["c1"]

ReleaseOf == thermal_throttling_status_map_["s1"].throttling_release_map["c1"]

MaxStateOf == CoolingDeviceInfoMap["c1"].max_state

\* The rail is over budget: the power is not under the threshold, or with
\* high_power_check not above it; a NaN threshold compares false either way.
OverBudget(sev, avg_power) ==
    LET threshold == PolicyOf.power_thresholds[sev]
    IN  IF PolicyOf.high_power_check
        THEN isnan(threshold) \/ avg_power <= threshold
        ELSE isnan(threshold) \/ avg_power >= threshold

ValidPowers == {p \in RailPowers : ~isnan(p) /\ p >= 0}

\* C24: under STEPWISE with a valid rail power, every evaluation adds 1 to
\* release_step when the rail is not over budget, unless it is +max_state, and
\* takes 1 from it when the rail is over budget, unless it is -max_state; so a
\* release_step at +max_state goes down at the next over-budget evaluation.
C24_StepwiseStepsUpAndDown ==
    [][\A sev \in env.sevs, avg_power \in ValidPowers :
          (PolicyOf.release_logic = "STEPWISE" /\ ReleaseTick("s1", sev, avg_power)) =>
              ReleaseOf' =
                  IF ~OverBudget(sev, avg_power)
                  THEN (IF ReleaseOf = MaxStateOf THEN ReleaseOf ELSE ReleaseOf + 1)
                  ELSE (IF ReleaseOf = -MaxStateOf THEN ReleaseOf ELSE ReleaseOf - 1)]_vars

\* The release step the policy table gives from release_step, with valid power.
TableStep(release_logic, release_step, over_budget, max_state) ==
    CASE release_logic = "INCREASE" ->
            IF over_budget THEN 0
            ELSE IF release_step = -max_state THEN release_step ELSE release_step - 1
      [] release_logic = "DECREASE" ->
            IF over_budget THEN 0
            ELSE IF release_step = max_state THEN release_step ELSE release_step + 1
      [] release_logic = "RELEASE_TO_FLOOR" -> IF over_budget THEN 0 ELSE max_state
      [] OTHER -> release_step

\* C25: with a valid rail power INCREASE takes 1 from release_step, down to
\* -max_state, when not over budget and sets it to 0 when over budget; DECREASE
\* adds 1, up to +max_state, when not over budget and sets it to 0 when over
\* budget; RELEASE_TO_FLOOR sets max_state when not over budget and 0 when over
\* budget; NONE leaves it; and with a NaN or negative rail power release_step
\* becomes max_state if throttling_with_power_link and 0 otherwise, whatever
\* the policy.
C25_ReleaseFollowsPolicyTable ==
    [][\A sev \in env.sevs, avg_power \in RailPowers :
          ReleaseTick("s1", sev, avg_power) =>
              IF avg_power \in ValidPowers
              THEN PolicyOf.release_logic # "STEPWISE" =>
                       ReleaseOf' = TableStep(PolicyOf.release_logic, ReleaseOf,
                                              OverBudget(sev, avg_power), MaxStateOf)
              ELSE ReleaseOf' = IF PolicyOf.throttling_with_power_link
                                THEN MaxStateOf ELSE 0]_vars

\* C26: in every reachable state, under every release policy, every
\* release_step of every sensor lies within -max_state..max_state of its cdev.
C26_ReleaseStepWithinMaxState ==
    \A s \in DOMAIN thermal_throttling_status_map_ :
        \A c \in DOMAIN thermal_throttling_status_map_[s].throttling_release_map :
            Abs(thermal_throttling_status_map_[s].throttling_release_map[c])
                <= CoolingDeviceInfoMap[c].max_state

\* C26 witness: ticks under budget have taken a release_step down to -max_state.
C26_ReleaseStepAtLowerBound ==
    /\ last_call.op = "update"
    /\ PolicyOf.release_logic \in {"INCREASE", "STEPWISE"}
    /\ ReleaseOf = -MaxStateOf

-----------------------------------------------------------------------------
(* throttlingReleaseUpdate on a binding of two cdevs (lines 668-676) *)

\* c2 bound by hard limit alone, or with a threshold on rail r2 that no tick
\* has a power status for.
OrderC2(power_rail) ==
    [DefaultBindedCdevInfo EXCEPT
        !.limit_info = Arr(0, 1, 1, 2, 2, 2, 2),
        !.cdev_ceiling = ArrAll(2),
        !.power_rail = power_rail,
        !.power_thresholds = IF power_rail = "" THEN ArrAll(NaN)
                             ELSE Arr(NaN, 20, 20, 20, 20, 20, 20),
        !.release_logic = IF power_rail = "" THEN "NONE" ELSE "DECREASE"]

\* The binding map of the sensor, walked in the order keys: the order of an
\* unordered_map is the build's choice.
OrderInfo(keys, release_logic, power_rail) ==
    [DefaultSensorInfo EXCEPT
        !.throttling_info =
            [DefaultThrottlingInfo EXCEPT
                !.binded_cdev_info_map =
                    BMap(keys,
                         [c \in {"c1", "c2"} |->
                             IF c = "c1" THEN PolicyC1(release_logic, FALSE, FALSE)
                             ELSE OrderC2(power_rail)])]]

RegisteredOrder(si) ==
    RegisterLoop(InitialStatus, EmptyMap, si.throttling_info.binded_cdev_info_map,
                 DOMAIN CoolingDeviceInfoMap, 1)

InitReleaseOrder ==
    /\ ThreadsIdle
    /\ \E keys \in {<<"c1", "c2">>, <<"c2", "c1">>},
          release_logic \in ReleaseLogics, power_rail \in {"", "r2"} :
           /\ sensor_info_map = [s \in {"s1"} |-> OrderInfo(keys, release_logic, power_rail)]
           /\ thermal_throttling_status_map_ =
                  [s \in {"s1"} |->
                      RegisteredOrder(OrderInfo(keys, release_logic, power_rail)).st]
           /\ cdev_all_request_map_ =
                  RegisteredOrder(OrderInfo(keys, release_logic, power_rail)).reg
    /\ crashed = FALSE
    /\ last_call = Called("none", "", NONE)
    /\ ret = "none"
    /\ cooling_devices_to_update = {}
    /\ stats_requests = {}
    /\ env = [sensors |-> {"s1"}, null_infos |-> {FALSE}, temps |-> {MaxTemp},
              sevs |-> {NONE, 2, 4}, dts |-> {1},
              power_status_maps |-> {[r \in {"r1"} |-> p] : p \in RailPowers},
              max_throttlings |-> {FALSE}, predictions |-> {<<>>},
              properties |-> {""}, fp_to_int |-> "saturate"]

SpecReleaseOrder == InitReleaseOrder /\ [][NextPid]_vars

\* What one evaluation of c1 makes of its release step.
EvaluatedStep(release_step, sev, avg_power) ==
    IF isnan(avg_power) \/ avg_power < 0
    THEN (IF PolicyOf.throttling_with_power_link THEN MaxStateOf ELSE 0)
    ELSE ReleaseStepUpdate(release_step, PolicyOf, avg_power, MaxStateOf, sev)

\* C27: every tick evaluates the release step of c1, which has a release entry
\* and a power status for its rail, whether or not the other bound cdev has a
\* release entry or rail data, and in whatever order the binding map is walked.
C27_ReleaseEvaluatedForEachCdev ==
    [][\A sev \in env.sevs, avg_power \in RailPowers :
          ReleaseTick("s1", sev, avg_power) =>
              ReleaseOf' = EvaluatedStep(ReleaseOf, sev, avg_power)]_vars

-----------------------------------------------------------------------------
(* updateCdevRequestBySeverity under a profile (lines 630-655) *)

\* A binding of cdev c by hard limit alone.
LimitC(limit_info, enabled) ==
    [DefaultBindedCdevInfo EXCEPT
        !.limit_info = limit_info, !.cdev_ceiling = ArrAll(2), !.enabled = enabled]

\* A sensor that binds c1 and c2 by hard limit, with a profile p1 that binds c1
\* alone, by other limits.
LimitInfo(enabled, enabled_p1) ==
    [DefaultSensorInfo EXCEPT
        !.throttling_info =
            [DefaultThrottlingInfo EXCEPT
                !.binded_cdev_info_map =
                    BMap(<<"c1", "c2">>,
                         [c \in {"c1", "c2"} |->
                             IF c = "c1" THEN LimitC(Arr(0, 0, 1, 1, 2, 2, 2), enabled)
                             ELSE LimitC(Arr(0, 1, 1, 1, 1, 2, 2), TRUE)]),
                !.profile_map =
                    [p \in {"p1"} |->
                        BMap(<<"c1">>,
                             [c \in {"c1"} |->
                                 LimitC(Arr(0, 1, 2, 2, 2, 2, 2), enabled_p1)])]]]

RegisteredLimit ==
    RegisterLoop(InitialStatus, EmptyMap,
                 LimitInfo(TRUE, TRUE).throttling_info.binded_cdev_info_map,
                 DOMAIN CoolingDeviceInfoMap, 1)

InitHardLimit ==
    /\ ThreadsIdle
    /\ \E enabled \in BOOLEAN, enabled_p1 \in BOOLEAN :
           sensor_info_map = [s \in {"s1"} |-> LimitInfo(enabled, enabled_p1)]
    /\ thermal_throttling_status_map_ = [s \in {"s1"} |-> RegisteredLimit.st]
    /\ cdev_all_request_map_ = RegisteredLimit.reg
    /\ crashed = FALSE
    /\ last_call = Called("none", "", NONE)
    /\ ret = "none"
    /\ cooling_devices_to_update = {}
    /\ stats_requests = {}
    /\ env = [sensors |-> {"s1"}, null_infos |-> {FALSE}, temps |-> {MaxTemp},
              sevs |-> Severities, dts |-> {1},
              power_status_maps |-> {[r \in {"r1"} |-> 25]},
              max_throttlings |-> {FALSE}, predictions |-> {<<>>},
              properties |-> {"", "p1", "px"}, fp_to_int |-> "saturate"]

SpecHardLimit == InitHardLimit /\ [][NextPid]_vars

\* The binding the profile of the last call's sensor resolves to.
LastBinding == ActiveBinding(LastTables, LastStatus.profile)

\* C28: after every tick of a sensor with hard-limit entries, for each cdev of
\* the binding its profile resolves to that has a hardlimit_cdev_request_map
\* entry, the entry is limit_info of the tick's severity if the binding is
\* enabled and 0 otherwise.
C28_HardLimitIsLimitInfoIfEnabled ==
    (Updated /\ DOMAIN LastStatus.hardlimit_cdev_request_map # {}) =>
        \A c \in Range(LastBinding.keys) \cap DOMAIN LastStatus.hardlimit_cdev_request_map :
            LastStatus.hardlimit_cdev_request_map[c] =
                IF LastBinding.at[c].enabled
                THEN LastBinding.at[c].limit_info[last_call.sev]
                ELSE 0

\* C28 witness: a tick under profile p1, whose binding of c1 is disabled, at a
\* severity where the default binding limits c1, has left c1's entry 0 and kept
\* the entry of c2, which p1 does not bind, from a tick before.
C28_DisabledProfileBindingRequestsZero ==
    /\ Updated
    /\ LastStatus.profile = "p1"
    /\ ~LastBinding.at["c1"].enabled
    /\ LastTables.binded_cdev_info_map.at["c1"].enabled
    /\ LastTables.binded_cdev_info_map.at["c1"].limit_info[last_call.sev] > 0
    /\ LastStatus.hardlimit_cdev_request_map["c1"] = 0
    /\ LastStatus.hardlimit_cdev_request_map["c2"] > 0

-----------------------------------------------------------------------------
(* The initial i_budget from i_default_pct (lines 233-248) *)

\* A PID sensor on c1 with i_default_pct = 50, no integral gain and i_max above
\* every state's power, so that the first tick leaves i_budget as initialised.
PctInfo ==
    [PidInfo EXCEPT
        !.throttling_info.i_default_pct = 50,
        !.throttling_info.k_io = ArrAll(0),
        !.throttling_info.k_iu = ArrAll(0),
        !.throttling_info.i_max = ArrAll(100),
        !.throttling_info.binded_cdev_info_map =
            BMap(<<"c1">>,
                 [c \in {"c1"} |->
                     [DefaultBindedCdevInfo EXCEPT
                         !.cdev_weight_for_pid = Arr(NaN, 1, 1, 1, 1, 1, 1)]])]

RegisteredPct ==
    RegisterLoop(InitialStatus, EmptyMap, PctInfo.throttling_info.binded_cdev_info_map,
                 DOMAIN CoolingDeviceInfoMap, 1)

\* s2 binds c1 by hard limit and so holds a vote on it.
RegisteredPctOther ==
    RegisterLoop(InitialStatus, RegisteredPct.reg,
                 S2LimitInfo.throttling_info.binded_cdev_info_map,
                 DOMAIN CoolingDeviceInfoMap, 1)

InitPct ==
    /\ ThreadsIdle
    /\ sensor_info_map = [s \in {"s1", "s2"} |-> IF s = "s1" THEN PctInfo ELSE S2LimitInfo]
    /\ thermal_throttling_status_map_ =
           [s \in {"s1", "s2"} |->
               IF s = "s1" THEN RegisteredPct.st ELSE RegisteredPctOther.st]
    /\ cdev_all_request_map_ = RegisteredPctOther.reg
    /\ crashed = FALSE
    /\ last_call = Called("none", "", NONE)
    /\ ret = "none"
    /\ cooling_devices_to_update = {}
    /\ stats_requests = {}
    /\ \E fp_to_int \in {"saturate", "indefinite"} :
           env = [sensors |-> {"s1", "s2"}, null_infos |-> {FALSE},
                  temps |-> {MaxTemp},
                  sevs |-> NONE..MaxSeverity, dts |-> {1},
                  power_status_maps |-> {[r \in {"r1"} |-> 25]},
                  max_throttlings |-> {FALSE}, predictions |-> {<<>>},
                  properties |-> {""}, fp_to_int |-> fp_to_int]

NextPct == ClearStep \/ UpdateStep \/ ComputeStep

SpecPct == InitPct /\ [][NextPct]_vars

\* The step is the first PID tick of s1: it finds i_budget NaN and sets it.
FirstPidTick ==
    /\ isnan(thermal_throttling_status_map_["s1"].i_budget)
    /\ ~isnan(thermal_throttling_status_map_'["s1"].i_budget)

\* C29: the first PID tick of a sensor with i_default_pct sets i_budget to the
\* sum over its bound cdevs of state2power at the cdev's greatest vote in the
\* registry, times i_default_pct / 100, whatever votes other sensors hold.
C29_DefaultIBudgetFromMaxVotes ==
    [][FirstPidTick =>
          thermal_throttling_status_map_'["s1"].i_budget =
              FDiv(FMul(CoolingDeviceInfoMap["c1"].state2power[
                            getCdevMaxRequest(cdev_all_request_map_, "c1").max_state],
                        PctInfo.throttling_info.i_default_pct),
                   100)]_vars

-----------------------------------------------------------------------------
(* throttling_with_power_link in allocatePowerToCdev (lines 424-461) *)

\* c1 on rail r1 with throttling_with_power_link, c2 on rail r2 or on no rail,
\* the binding map walked in the order keys.
LinkInfo(keys, power_rail) ==
    [AllocInfo EXCEPT
        !.throttling_info.binded_cdev_info_map =
            BMap(keys,
                 [c \in {"c1", "c2"} |->
                     IF c = "c1"
                     THEN [AllocC("r1", 3) EXCEPT !.throttling_with_power_link = TRUE]
                     ELSE AllocC(power_rail, 2)])]

RegisteredLink(si) ==
    RegisterLoop(InitialStatus, EmptyMap, si.throttling_info.binded_cdev_info_map,
                 DOMAIN CoolingDeviceInfoMap, 1)

InitLink ==
    /\ ThreadsIdle
    /\ \E keys \in {<<"c1", "c2">>, <<"c2", "c1">>}, power_rail \in {"", "r2"} :
           /\ sensor_info_map = [s \in {"s1"} |-> LinkInfo(keys, power_rail)]
           /\ thermal_throttling_status_map_ =
                  [s \in {"s1"} |-> RegisteredLink(LinkInfo(keys, power_rail)).st]
           /\ cdev_all_request_map_ = RegisteredLink(LinkInfo(keys, power_rail)).reg
    /\ crashed = FALSE
    /\ last_call = Called("none", "", NONE)
    /\ ret = "none"
    /\ cooling_devices_to_update = {}
    /\ stats_requests = {}
    /\ \E fp_to_int \in {"saturate", "indefinite"} :
           env = [sensors |-> {"s1"}, null_infos |-> {FALSE},
                  temps |-> {MaxTemp},
                  sevs |-> NONE..MaxSeverity, dts |-> {1},
                  power_status_maps |->
                      {[r \in {"r1", "r2"} |-> IF r = "r1" THEN p1 ELSE p2] :
                           p1 \in {NaN, MaxPower}, p2 \in {NaN, 20}},
                  max_throttlings |-> {FALSE}, predictions |-> {<<>>},
                  properties |-> {""}, fp_to_int |-> fp_to_int]

SpecLink == InitLink /\ [][NextPid]_vars

\* C30: when a cdev of the active binding that is enabled and has a positive
\* weight at the current severity has throttling_with_power_link, the tick's
\* allocatePowerToCdev returns false, in whatever order the binding map is
\* walked and whatever the rail data of the other cdevs.
C30_PowerLinkFailsAllocation ==
    (/\ Ticked
     /\ \E c \in Range(LastBinding.keys) :
            /\ LastBinding.at[c].throttling_with_power_link
            /\ LastBinding.at[c].enabled
            /\ FGt(LastBinding.at[c].cdev_weight_for_pid[last_call.sev], 0))
        => ret = "false"

-----------------------------------------------------------------------------
(* The allocator with slew limits, a disabled cdev and invalid rail data *)

\* c1 on rail r1, enabled or not; c2 on rail r2 or on no rail, with weight 0 at
\* severity 2.  Both change by one state a tick at most in either direction.
SlewC1(enabled) ==
    [AllocC("r1", 3) EXCEPT !.enabled = enabled,
                            !.max_throttle_step = 1, !.max_release_step = 1]

SlewC2(power_rail) ==
    [AllocC(power_rail, 2) EXCEPT !.cdev_weight_for_pid = Arr(NaN, 1, 0, 1, 1, 1, 1),
                                  !.max_throttle_step = 1, !.max_release_step = 1]

SlewBinding(keys, enabled, power_rail) ==
    BMap(keys,
         [c \in {"c1", "c2"} |-> IF c = "c1" THEN SlewC1(enabled) ELSE SlewC2(power_rail)])

\* The profile p1 binds the same cdevs with c1 disabled.
SlewInfo(keys, enabled, power_rail) ==
    [AllocInfo EXCEPT
        !.throttling_info.binded_cdev_info_map = SlewBinding(keys, enabled, power_rail),
        !.throttling_info.profile_map =
            [p \in {"p1"} |-> SlewBinding(keys, FALSE, power_rail)]]

InitSlew ==
    /\ ThreadsIdle
    /\ \E keys \in {<<"c1", "c2">>, <<"c2", "c1">>}, enabled \in BOOLEAN,
          power_rail \in {"", "r2"} :
           /\ sensor_info_map = [s \in {"s1"} |-> SlewInfo(keys, enabled, power_rail)]
           /\ thermal_throttling_status_map_ =
                  [s \in {"s1"} |->
                      RegisteredLink(SlewInfo(keys, enabled, power_rail)).st]
           /\ cdev_all_request_map_ =
                  RegisteredLink(SlewInfo(keys, enabled, power_rail)).reg
    /\ crashed = FALSE
    /\ last_call = Called("none", "", NONE)
    /\ ret = "none"
    /\ cooling_devices_to_update = {}
    /\ stats_requests = {}
    /\ \E fp_to_int \in {"saturate", "indefinite"} :
           env = [sensors |-> {"s1"}, null_infos |-> {FALSE},
                  temps |-> {MaxTemp},
                  sevs |-> NONE..MaxSeverity, dts |-> {1},
                  power_status_maps |->
                      {[r \in {"r1", "r2"} |-> IF r = "r1" THEN p1 ELSE p2] :
                           p1 \in {NaN, 4, MaxPower}, p2 \in {NaN, 20}},
                  max_throttlings |-> {FALSE}, predictions |-> {<<>>},
                  properties |-> {"", "p1"}, fp_to_int |-> fp_to_int]

SpecSlew == InitSlew /\ [][NextPid]_vars

\* The binding of sensor s1 and its cdevs that take part in an allocation at
\* severity sev: enabled, with a weight above 0.
BindingOf == sensor_info_map["s1"].throttling_info.binded_cdev_info_map

Active(sev) ==
    {c \in Range(BindingOf.keys) :
        BindingOf.at[c].enabled /\ FGt(BindingOf.at[c].cdev_weight_for_pid[sev], 0)}

\* Some active cdev has no rail, or a rail whose average power is NaN.
NoRailData(sev, power_status_map) ==
    \E c \in Active(sev) :
        \/ BindingOf.at[c].power_rail = ""
        \/ isnan(power_status_map[BindingOf.at[c].power_rail])

\* The budgets the tick leaves when no rail has a reading: the first pass ends
\* at the first cdev it visits and the second gives every cdev its share by
\* weight, limited to state2power[0] and by the slew limits.
WeightOnlyBudgets(sev) ==
    thermalThrottlingUpdate(
        thermal_throttling_status_map_["s1"], cdev_all_request_map_,
        CHOOSE t \in env.temps : TRUE, sensor_info_map["s1"], sev,
        CHOOSE d \in env.dts : TRUE, [r \in {"r1", "r2"} |-> NaN],
        CoolingDeviceInfoMap, FALSE, <<>>, "", env.fp_to_int).st.pid_power_budget_map

\* C31: when in the first pass some active cdev has no power rail or a NaN
\* average power, every active cdev is given its share by weight of the whole
\* budget, limited to state2power[0] and by the slew limits, with no cdev
\* excluded and no dependence on any rail's measured power, in whatever order
\* the binding map is walked (stated for the ticks under the default profile).
C31_InvalidDataAllocatesByWeight ==
    [][\A sev \in env.sevs, power_status_map \in env.power_status_maps :
          (/\ NoRailData(sev, power_status_map)
           /\ thermal_throttling_status_map_'["s1"].profile = ""
           /\ TickWithPower("s1", sev, power_status_map)) =>
              \A c \in Active(sev) :
                  thermal_throttling_status_map_'["s1"].pid_power_budget_map[c]
                      = WeightOnlyBudgets(sev)[c]]_vars

\* The cdevs of s1 with a finite max_throttle_step, and with a finite
\* max_release_step.
ThrottleLimited == {c \in Range(BindingOf.keys) : BindingOf.at[c].max_throttle_step # INT_MAX}

ReleaseLimited == {c \in Range(BindingOf.keys) : BindingOf.at[c].max_release_step # INT_MAX}

PidRequest(c) == thermal_throttling_status_map_["s1"].pid_cdev_request_map[c]

\* C32: in a tick with max_throttling = false, the PID request of a cdev with a
\* finite max_throttle_step and strictly decreasing state2power is after the
\* tick at most the request before it plus max_throttle_step.
C32_ThrottleSlewLimit ==
    [][\A sev \in env.sevs :
          (last_call' = Called("update", "s1", sev) /\ ~crashed') =>
              \A c \in ThrottleLimited :
                  PidRequest(c)' <= PidRequest(c) + BindingOf.at[c].max_throttle_step]_vars

\* C33: in a tick with max_throttling = false, the PID request of a cdev with a
\* finite max_release_step and strictly decreasing state2power is after the tick
\* at least the request before it less max_release_step, and at least 0,
\* whether the cdev is enabled or not and whatever the rail data.
C33_ReleaseSlewLimit ==
    [][\A sev \in env.sevs :
          (last_call' = Called("update", "s1", sev) /\ ~crashed') =>
              \A c \in ReleaseLimited :
                  /\ PidRequest(c)' >= PidRequest(c) - BindingOf.at[c].max_release_step
                  /\ PidRequest(c)' >= 0]_vars

\* The binding that the profile of s1 resolves to.
ActiveOf ==
    ActiveBinding(sensor_info_map["s1"].throttling_info,
                  thermal_throttling_status_map_["s1"].profile)

PidBudgetOf(c) == thermal_throttling_status_map_["s1"].pid_power_budget_map[c]

\* C34: a cdev of the active binding that is disabled, or whose PID weight at
\* the tick's severity is 0 or NaN, is skipped by both passes of the allocation:
\* the tick leaves its pid_power_budget entry as it was.
C34_DisabledOrZeroWeightKeepsBudget ==
    [][\A sev \in env.sevs :
          (last_call' = Called("update", "s1", sev) /\ ~crashed') =>
              \A c \in Range(ActiveOf'.keys) :
                  (\/ ~ActiveOf'.at[c].enabled
                   \/ isnan(ActiveOf'.at[c].cdev_weight_for_pid[sev])
                   \/ ActiveOf'.at[c].cdev_weight_for_pid[sev] = 0)
                      => PidBudgetOf(c)' = PidBudgetOf(c)]_vars

-----------------------------------------------------------------------------
(* SpecLocks: the four entry points that take a lock, each on a thread of   *)
(* its own.  "tick" runs thermalThrottlingUpdate and the compute that       *)
(* follows it, "worker" runs computeCoolingDevicesRequest, "clear" runs     *)
(* clearThrottlingData and "reader" runs getCdevMaxRequest.  The calls of   *)
(* getCdevMaxRequest that allocatePowerToCdev makes under its own lock      *)
(* (lines 242 and 524) are steps of the tick: whether a tick reaches one is *)
(* left open, so that both paths are followed.                              *)

LockThreads == {"tick", "worker", "clear", "reader"}

IdleWorker ==
    [s |-> "", sev |-> NONE, pending |-> {}, c |-> "", cur_request |-> 0,
     new_request |-> 0, cur_max_request |-> 0, updates |-> {}]

WorkerStatus == thermal_throttling_status_map_[frame.w.s]

WorkerInfo == sensor_info_map[frame.w.s]

\* What a step that touches neither map nor the outputs of the tick leaves.
LockStepOnly ==
    /\ Frozen
    /\ UNCHANGED <<thermal_throttling_status_map_, cdev_all_request_map_, crashed,
                   cooling_devices_to_update, stats_requests>>

\* allocatePowerToCdev takes its lock (line 392).
AllocateLock == TickLock("allocate", "calling")

\* getCdevMaxRequest called from allocatePowerToCdev: the shared lock (line 892).
AllocateCallLock ==
    /\ At("tick", "calling")
    /\ CanLockShared(cdev_all_request_map_mutex_)
    /\ cdev_all_request_map_mutex_' = LockShared(cdev_all_request_map_mutex_, "tick")
    /\ Goto("tick", "called")
    /\ LockStepOnly
    /\ UNCHANGED <<frame, thermal_throttling_status_map_mutex_>>

\* That call returns.
AllocateCallReturn ==
    /\ At("tick", "called")
    /\ cdev_all_request_map_mutex_' = Unlock(cdev_all_request_map_mutex_, "tick")
    /\ Goto("tick", "allocating")
    /\ LockStepOnly
    /\ UNCHANGED <<frame, thermal_throttling_status_map_mutex_>>

\* A tick that returns from allocatePowerToCdev before either call.
AllocateNoCall ==
    /\ At("tick", "calling")
    /\ Goto("tick", "allocating")
    /\ LockStepOnly
    /\ UNCHANGED <<frame, thermal_throttling_status_map_mutex_,
                   cdev_all_request_map_mutex_>>

\* The compute of the tick returns.
TickComputeReturn ==
    /\ At("tick", "walk")
    /\ frame.pending = {}
    /\ thermal_throttling_status_map_mutex_' =
           Unlock(thermal_throttling_status_map_mutex_, "tick")
    /\ frame' = [frame EXCEPT !.s = "", !.sev = NONE, !.c = "", !.cur_request = 0,
                              !.new_request = 0, !.cur_max_request = 0]
    /\ Goto("tick", "idle")
    /\ LockStepOnly
    /\ UNCHANGED cdev_all_request_map_mutex_

\* computeCoolingDevicesRequest is called on the worker.
WorkerBegin ==
    /\ At("worker", "idle")
    /\ \E s \in env.sensors, sev \in env.sevs :
           frame' = [frame EXCEPT !.w = [IdleWorker EXCEPT !.s = s, !.sev = sev]]
    /\ Goto("worker", "compute")
    /\ LockStepOnly
    /\ UNCHANGED <<thermal_throttling_status_map_mutex_, cdev_all_request_map_mutex_>>

\* Its lock (line 797) and the start of its walk.
WorkerLock ==
    /\ At("worker", "compute")
    /\ CanLockUnique(thermal_throttling_status_map_mutex_)
    /\ thermal_throttling_status_map_mutex_' =
           LockUnique(thermal_throttling_status_map_mutex_, "worker")
    /\ frame' = [frame EXCEPT
                    !.w.pending = IF frame.w.s \in DOMAIN thermal_throttling_status_map_
                                  THEN DOMAIN WorkerStatus.cdev_status_map ELSE {}]
    /\ Goto("worker", "walk")
    /\ LockStepOnly
    /\ UNCHANGED cdev_all_request_map_mutex_

WorkerWalkOn(c, request_state) ==
    /\ frame' = [frame EXCEPT
                    !.w.pending = IF request_state = WorkerStatus.cdev_status_map[c]
                                  THEN @ \ {c} ELSE @,
                    !.w.c = c,
                    !.w.cur_request = WorkerStatus.cdev_status_map[c],
                    !.w.new_request = request_state]
    /\ Goto("worker", IF request_state = WorkerStatus.cdev_status_map[c]
                      THEN "walk" ELSE "vote")

WorkerWalk ==
    /\ At("worker", "walk")
    /\ \E c \in frame.w.pending :
           WorkerWalkOn(c, CdevRequest(WorkerStatus,
                                       ActiveBinding(WorkerInfo.throttling_info,
                                                     WorkerStatus.profile),
                                       c, frame.w.sev))
    /\ LockStepOnly
    /\ UNCHANGED <<thermal_throttling_status_map_mutex_, cdev_all_request_map_mutex_>>

\* updateCdevMaxRequestAndNotifyIfChange on the worker: the lock (line 877).
WorkerVoteLock ==
    /\ At("worker", "vote")
    /\ CanLockUnique(cdev_all_request_map_mutex_)
    /\ cdev_all_request_map_mutex_' = LockUnique(cdev_all_request_map_mutex_, "worker")
    /\ frame' = [frame EXCEPT
                    !.w.cur_max_request =
                        RequestSetBegin(cdev_all_request_map_[frame.w.c])]
    /\ Goto("worker", "voting")
    /\ LockStepOnly
    /\ UNCHANGED thermal_throttling_status_map_mutex_

\* The erase, the insert, the return and lines 863 to 870 of the walk.
WorkerVote ==
    /\ At("worker", "voting")
    /\ crashed' = ~BagIn(frame.w.cur_request, cdev_all_request_map_[frame.w.c])
    /\ cdev_all_request_map_' =
           [cdev_all_request_map_ EXCEPT
               ![frame.w.c] = RequestSetInsert(
                                  RequestSetEraseOne(@, frame.w.cur_request),
                                  frame.w.new_request)]
    /\ cdev_all_request_map_mutex_' = Unlock(cdev_all_request_map_mutex_, "worker")
    /\ thermal_throttling_status_map_' =
           [thermal_throttling_status_map_ EXCEPT
               ![frame.w.s].cdev_status_map[frame.w.c] = frame.w.new_request]
    /\ frame' = [frame EXCEPT
                    !.w.pending = @ \ {frame.w.c},
                    !.w.updates =
                        IF RequestSetBegin(cdev_all_request_map_'[frame.w.c])
                               # frame.w.cur_max_request
                        THEN @ \cup {frame.w.c} ELSE @]
    /\ Goto("worker", "walk")
    /\ Frozen
    /\ UNCHANGED <<cooling_devices_to_update, stats_requests,
                   thermal_throttling_status_map_mutex_>>

WorkerReturn ==
    /\ At("worker", "walk")
    /\ frame.w.pending = {}
    /\ thermal_throttling_status_map_mutex_' =
           Unlock(thermal_throttling_status_map_mutex_, "worker")
    /\ frame' = [frame EXCEPT !.w = IdleWorker]
    /\ Goto("worker", "idle")
    /\ LockStepOnly
    /\ UNCHANGED cdev_all_request_map_mutex_

\* clearThrottlingData is called: the count of line 74, made without the lock.
ClearBegin ==
    /\ At("clear", "idle")
    /\ \E s \in env.sensors :
           /\ frame' = [frame EXCEPT !.clear_s = s]
           /\ Goto("clear", IF s \in DOMAIN thermal_throttling_status_map_
                            THEN "lock" ELSE "idle")
    /\ LockStepOnly
    /\ UNCHANGED <<thermal_throttling_status_map_mutex_, cdev_all_request_map_mutex_>>

\* Its lock (line 77).
ClearLock ==
    /\ At("clear", "lock")
    /\ CanLockUnique(thermal_throttling_status_map_mutex_)
    /\ thermal_throttling_status_map_mutex_' =
           LockUnique(thermal_throttling_status_map_mutex_, "clear")
    /\ Goto("clear", "clearing")
    /\ LockStepOnly
    /\ UNCHANGED <<frame, cdev_all_request_map_mutex_>>

\* Lines 79 to 107 and the return.
ClearWrite ==
    /\ At("clear", "clearing")
    /\ thermal_throttling_status_map_' =
           [thermal_throttling_status_map_ EXCEPT
               ![frame.clear_s] = clearThrottlingData(@)]
    /\ thermal_throttling_status_map_mutex_' =
           Unlock(thermal_throttling_status_map_mutex_, "clear")
    /\ frame' = [frame EXCEPT !.clear_s = ""]
    /\ Goto("clear", "idle")
    /\ Frozen
    /\ UNCHANGED <<cdev_all_request_map_, crashed, cooling_devices_to_update,
                   stats_requests, cdev_all_request_map_mutex_>>

TickSteps ==
    \/ TickBegin \/ TickProfile \/ AllocateLock \/ AllocateCallLock
    \/ AllocateCallReturn \/ AllocateNoCall \/ TickAllocate \/ TickZero
    \/ TickPowerLock \/ TickPower \/ TickSeverityLock \/ TickSeverity
    \/ TickReleaseLock \/ TickRelease \/ TickSkip
    \/ ComputeLock \/ ComputeWalk \/ VoteLock \/ VoteErase \/ VoteInsert
    \/ VoteReturn \/ TickComputeReturn

WorkerSteps ==
    \/ WorkerBegin \/ WorkerLock \/ WorkerWalk \/ WorkerVoteLock \/ WorkerVote
    \/ WorkerReturn

ClearSteps == ClearBegin \/ ClearLock \/ ClearWrite

ReaderSteps == ReaderLock \/ ReaderRead

NextLocks == TickSteps \/ WorkerSteps \/ ClearSteps \/ ReaderSteps

InitLocks ==
    /\ thermal_throttling_status_map_mutex_ = Unlocked
    /\ cdev_all_request_map_mutex_ = Unlocked
    /\ pc = [t \in LockThreads |-> "idle"]
    /\ frame = [w |-> IdleWorker, clear_s |-> ""] @@ IdleFrame
    /\ energy_info_map_ = EmptyMap
    /\ power_status_map_ = EmptyMap
    /\ sensor_info_map =
           [s \in {"s1", "s2"} |->
               IF s = "s1" THEN S1Info(<<"c1", "c2">>) ELSE S2LimitInfo]
    /\ thermal_throttling_status_map_ =
           [s \in {"s1", "s2"} |-> IF s = "s1" THEN RegisteredS1.st ELSE RegisteredS2.st]
    /\ cdev_all_request_map_ = RegisteredS2.reg
    /\ crashed = FALSE
    /\ last_call = Called("none", "", NONE)
    /\ ret = "none"
    /\ cooling_devices_to_update = {}
    /\ stats_requests = {}
    /\ env = [sensors |-> {"s1", "s2"},
              null_infos |-> {FALSE},
              temps |-> {MaxTemp},
              sevs |-> {6},
              dts |-> {1},
              power_status_maps |-> {[r \in {"r1"} |-> 25]},
              max_throttlings |-> {FALSE},
              predictions |-> {<<>>},
              properties |-> {"p1"},
              fp_to_int |-> "saturate"]

SpecLocks == InitLocks /\ [][NextLocks]_vars

\* The threads that hold the mutex m, as writer or as reader.
HeldBy(m) == (IF m.writer = "" THEN {} ELSE {m.writer}) \cup m.readers

\* The thread t is about to ask for the lock of the status map.
StatusWanted(t) ==
    \/ /\ t = "tick"
       /\ \/ pc[t] \in {"allocate", "power", "compute"}
          \/ pc[t] = "severity" /\ DOMAIN TickStatus.hardlimit_cdev_request_map # {}
          \/ pc[t] = "release" /\ DOMAIN TickStatus.throttling_release_map # {}
    \/ t = "worker" /\ pc[t] = "compute"
    \/ t = "clear" /\ pc[t] = "lock"

\* The thread t is about to ask for the unique lock of the registry.
RegistryWanted(t) == t \in {"tick", "worker"} /\ pc[t] = "vote"

\* The thread t is about to ask for the shared lock of the registry.
RegistrySharedWanted(t) ==
    \/ t = "tick" /\ pc[t] = "calling"
    \/ t = "reader" /\ pc[t] = "idle"

\* The lock that the thread t asks for is not free for it.
Blocked(t) ==
    \/ StatusWanted(t) /\ ~CanLockUnique(thermal_throttling_status_map_mutex_)
    \/ RegistryWanted(t) /\ ~CanLockUnique(cdev_all_request_map_mutex_)
    \/ RegistrySharedWanted(t) /\ ~CanLockShared(cdev_all_request_map_mutex_)

\* The threads that hold the lock t asks for.
HoldersAhead(t) ==
    IF StatusWanted(t) THEN HeldBy(thermal_throttling_status_map_mutex_)
    ELSE HeldBy(cdev_all_request_map_mutex_)

\* Every thread of D waits for a lock that a thread of D holds.
Deadlocked(D) == \A t \in D : Blocked(t) /\ HoldersAhead(t) \cap D # {}

\* C35: no interleaving of ticks, computeCoolingDevicesRequest,
\* clearThrottlingData and getCdevMaxRequest on different threads deadlocks.  A
\* thread that asks for the status lock holds no lock, a thread that asks for the
\* registry lock does not hold it, and no set of threads waits on itself.
C35_LockOrderNoDeadlock ==
    ~crashed =>
        /\ \A t \in DOMAIN pc :
               /\ StatusWanted(t) =>
                      t \notin HeldBy(thermal_throttling_status_map_mutex_)
                                \cup HeldBy(cdev_all_request_map_mutex_)
               /\ (RegistryWanted(t) \/ RegistrySharedWanted(t)) =>
                      t \notin HeldBy(cdev_all_request_map_mutex_)
        /\ \A D \in SUBSET DOMAIN pc : D = {} \/ ~Deadlocked(D)

\* The clear, the tick and the reader wait while the worker holds both locks.
C35_ThreeThreadsWaitOnWorker ==
    /\ thermal_throttling_status_map_mutex_.writer = "worker"
    /\ cdev_all_request_map_mutex_.writer = "worker"
    /\ pc["clear"] = "lock"
    /\ pc["tick"] = "allocate"
    /\ Blocked("reader")

-----------------------------------------------------------------------------
(* The votes of the registry against the recorded requests, under Spec *)

\* The number of votes the registry holds for each cdev.
RegistrySizes ==
    [c \in DOMAIN cdev_all_request_map_ |-> BagCardinality(cdev_all_request_map_[c])]

\* Every request a sensor has recorded for a cdev is a vote of that cdev.
RecordedVotesPresent ==
    \A s \in DOMAIN thermal_throttling_status_map_ :
        \A c \in DOMAIN thermal_throttling_status_map_[s].cdev_status_map :
            /\ c \in DOMAIN cdev_all_request_map_
            /\ BagIn(LastRecorded(s, c), cdev_all_request_map_[c])

\* C36: in every reachable state the registry multiset of each cdev in a sensor's
\* cdev_status_map holds an element equal to the sensor's recorded request, so
\* the erase of updateCdevMaxRequestAndNotifyIfChange always finds its vote; and
\* a step other than a registration leaves the size of every multiset as it was.
C36_RecordedVoteInRegistry ==
    [][/\ ~crashed' => RecordedVotesPresent'
       /\ last_call'.op # "register" => RegistrySizes' = RegistrySizes]_vars

\* C36 witness: a compute has moved the vote of one of two sensors that hold
\* requests for c1, and c1 has as many votes as before.
C36_VoteMovedAmongSeveral ==
    /\ last_call.op = "compute"
    /\ ~crashed
    /\ <<"c1", 3>> \in stats_requests
    /\ Cardinality(Voters("c1")) >= 2
    /\ \E s \in Voters("c1") : LastRecorded(s, "c1") = 0

-----------------------------------------------------------------------------
(* SpecMixed: a sensor that binds c1 by PID weight and c2 by hard limit, c2  *)
(* with or without a PID weight of its own.                                 *)

MixedC2(by_pid) ==
    [DefaultBindedCdevInfo EXCEPT
        !.cdev_weight_for_pid = IF by_pid THEN Arr(NaN, 1, 1, 1, 1, 1, 1) ELSE @,
        !.limit_info = Arr(0, 1, 2, 2, 2, 2, 2),
        !.cdev_ceiling = ArrAll(2)]

MixedInfo(keys, by_pid) ==
    [AllocInfo EXCEPT
        !.throttling_info.binded_cdev_info_map =
            BMap(keys, [c \in {"c1", "c2"} |->
                           IF c = "c1" THEN AllocC("r1", 3) ELSE MixedC2(by_pid)])]

InitMixed ==
    /\ ThreadsIdle
    /\ \E keys \in {<<"c1", "c2">>, <<"c2", "c1">>}, by_pid \in BOOLEAN :
           /\ sensor_info_map = [s \in {"s1"} |-> MixedInfo(keys, by_pid)]
           /\ thermal_throttling_status_map_ =
                  [s \in {"s1"} |-> RegisteredLink(MixedInfo(keys, by_pid)).st]
           /\ cdev_all_request_map_ = RegisteredLink(MixedInfo(keys, by_pid)).reg
    /\ crashed = FALSE
    /\ last_call = Called("none", "", NONE)
    /\ ret = "none"
    /\ cooling_devices_to_update = {}
    /\ stats_requests = {}
    /\ \E fp_to_int \in {"saturate", "indefinite"} :
           env = [sensors |-> {"s1"}, null_infos |-> {FALSE},
                  temps |-> {MaxTemp},
                  sevs |-> NONE..MaxSeverity, dts |-> {1},
                  power_status_maps |-> {[r \in {"r1"} |-> 25]},
                  max_throttlings |-> {FALSE},
                  predictions |-> {<<>>},
                  properties |-> {""},
                  fp_to_int |-> fp_to_int]

SpecMixed == InitMixed /\ [][NextPct]_vars

\* C37: for a sensor whose registration went through, a tick and the compute
\* that follows it never look up a key that its map does not have: every cdev of
\* the active binding has its entries in pid_cdev_request_map and
\* pid_power_budget_map, and every cdev of cdev_status_map is in the binding.
C37_NoLookupOfMissingKey ==
    /\ ~crashed
    /\ \A c \in DOMAIN thermal_throttling_status_map_["s1"].cdev_status_map :
           c \in Range(ActiveOf.keys)

-----------------------------------------------------------------------------
(* The transient of a target change, under SpecPid *)

\* The status of the ticked sensor before the tick.
StatusBefore == thermal_throttling_status_map_[last_call'.sensor]

\* The tick reloaded the transient counter: a target change with tran_cycle > 0.
CounterReloaded == TickedNow /\ TargetChanged /\ LastTables'.tran_cycle > 0

\* The budget the reloading tick settled on before the transient: min_alloc_power
\* when it returned at line 225 (the counter is still N - 1), otherwise what it
\* stored as prev_power_budget less the transient term it added.
SettledBudget ==
    IF LastStatus.tran_cycle = LastTables.tran_cycle - 1
    THEN LastTables.min_alloc_power[LastStatus.prev_target]
    ELSE FSub(LastStatus.prev_power_budget,
              FDiv(FMul(LastStatus.budget_transient, LastTables.tran_cycle - 1),
                   LastTables.tran_cycle))

\* C38: the budget_transient that later ticks scale is the one computed in the
\* tick that reloaded the counter, the tick of a target change that returned
\* through the max-throttling shortcut included: a tick that reloads the counter
\* leaves budget_transient = previous budget - the budget it settled on.
C38_ReloadComputesTransient ==
    [][CounterReloaded =>
          LastStatus'.budget_transient =
              FSub(StatusBefore.prev_power_budget, SettledBudget')]_vars

-----------------------------------------------------------------------------
(* PowerFiles (power_files.cpp): the energy samples and the history of a    *)
(* rail.  SpecPower: one rail r1 registered with a power_sample_count up to *)
(* MaxSamples, refreshed with samples whose duration and energy counter     *)
(* take every value up to MaxDuration and MaxEnergy, in any order: the      *)
(* counters come from sysfs and can go back.  last_update_time is "min"     *)
(* until the first update; whether power_sample_delay has elapsed since is  *)
(* an input of the refresh.                                                 *)

MaxSamples == 2

MaxDuration == 2

MaxEnergy == 2

PowerSample(energy_counter, duration) ==
    [energy_counter |-> energy_counter, duration |-> duration]

\* A calculation that accepts every sample.
CalculateAvgPowerAcceptsAll(last_sample, curr_sample) ==
    [ok |-> TRUE,
     avg_power |-> FDiv(curr_sample.energy_counter - last_sample.energy_counter,
                        curr_sample.duration - last_sample.duration)]

\* calculateAvgPower: [ok, avg_power], ok being what it returns.
calculateAvgPower(last_sample, curr_sample) ==
    IF curr_sample.duration = last_sample.duration
    THEN [ok |-> TRUE, avg_power |-> NaN]
    ELSE IF \/ curr_sample.duration < last_sample.duration
            \/ curr_sample.energy_counter < last_sample.energy_counter
    THEN [ok |-> FALSE, avg_power |-> NaN]
    ELSE [ok |-> TRUE,
          avg_power |-> FDiv(curr_sample.energy_counter - last_sample.energy_counter,
                             curr_sample.duration - last_sample.duration)]

\* updateAveragePower: [avg_power, power_history], the queue as a sequence with
\* its front first.
updateAveragePower(energy_info_map, power_rail, power_history) ==
    IF power_rail \notin DOMAIN energy_info_map
    THEN [avg_power |-> NaN, power_history |-> power_history]
    ELSE LET curr_sample == energy_info_map[power_rail]
             r == calculateAvgPower(Head(power_history), curr_sample)
         IN  [avg_power |-> r.avg_power,
              power_history |-> IF r.ok THEN Append(Tail(power_history), curr_sample)
                                ELSE power_history]

\* The rail is refreshed by this call: it never was, or its delay has elapsed.
RailDue(power_status, elapsed) == power_status.last_update_time = "min" \/ elapsed

\* updatePowerRail of a rail that is not virtual: the PowerStatus it leaves.
updatePowerRail(power_status, energy_info_map, power_rail, elapsed) ==
    IF ~RailDue(power_status, elapsed) THEN power_status
    ELSE LET u == updateAveragePower(energy_info_map, power_rail,
                                     power_status.power_history[1])
         IN  [last_update_time |-> "set",
              power_history |-> <<u.power_history>>,
              last_updated_avg_power |-> IF FLt(u.avg_power, 0) THEN NaN
                                         ELSE u.avg_power]

\* registerPowerRailsToWatch: the power_status_map_ it builds, a rail with
\* power_sample_count 0 being left out.
registerPowerRailsToWatch(power_rail_info_map, energy_info_map) ==
    [r \in {x \in DOMAIN power_rail_info_map :
                power_rail_info_map[x].power_sample_count # 0} |->
        [last_update_time |-> "min",
         power_history |-> <<[j \in 1..power_rail_info_map[r].power_sample_count |->
                                 energy_info_map[r]]>>,
         last_updated_avg_power |-> NaN]]

\* refreshPowerStatus: updateEnergyValues reads sample for r1, or fails, and
\* each watched rail is updated.  last_call names the rail whose history
\* updateAveragePower was called on.
RefreshPowerStatus(read_ok, sample, elapsed) ==
    /\ ~crashed
    /\ IF ~read_ok
       THEN /\ ret' = "false"
            /\ last_call' = Called("refresh", "", NONE)
            /\ UNCHANGED power_files
       ELSE /\ ret' = "true"
            /\ energy_info_map_' = [energy_info_map_ EXCEPT !["r1"] = sample]
            /\ power_status_map_' =
                   [r \in DOMAIN power_status_map_ |->
                       updatePowerRail(power_status_map_[r], energy_info_map_', r,
                                       elapsed)]
            /\ last_call' =
                   Called("refresh",
                          IF /\ "r1" \in DOMAIN power_status_map_
                             /\ RailDue(power_status_map_["r1"], elapsed)
                          THEN "r1" ELSE "",
                          NONE)
    /\ UNCHANGED <<thermal_throttling_status_map_, cdev_all_request_map_,
                   sensor_info_map, crashed, cooling_devices_to_update,
                   stats_requests, env, threads>>

RefreshStep ==
    \E read_ok \in BOOLEAN, sample \in env.samples, elapsed \in BOOLEAN :
        RefreshPowerStatus(read_ok, sample, elapsed)

InitPower ==
    /\ thermal_throttling_status_map_mutex_ = Unlocked
    /\ cdev_all_request_map_mutex_ = Unlocked
    /\ pc = [t \in Threads |-> "idle"]
    /\ frame = IdleFrame
    /\ thermal_throttling_status_map_ = EmptyMap
    /\ cdev_all_request_map_ = EmptyMap
    /\ sensor_info_map = EmptyMap
    /\ crashed = FALSE
    /\ last_call = Called("none", "", NONE)
    /\ ret = "none"
    /\ cooling_devices_to_update = {}
    /\ stats_requests = {}
    /\ \E power_sample_count \in 0..MaxSamples :
           env = [samples |-> {PowerSample(e, d) : e \in 0..MaxEnergy,
                                                   d \in 0..MaxDuration},
                  power_rail_info_map |->
                      [r \in {"r1"} |-> [power_sample_count |-> power_sample_count]]]
    /\ \E sample \in env.samples :
           /\ energy_info_map_ = [r \in {"r1"} |-> sample]
           /\ power_status_map_ =
                  registerPowerRailsToWatch(env.power_rail_info_map, energy_info_map_)

SpecPower == InitPower /\ [][RefreshStep]_vars

\* The history queue of r1, and the sample that the last refresh read.
History == power_status_map_["r1"].power_history[1]

CurrSample == energy_info_map_["r1"]

\* updateAveragePower ran on the history of r1 in the step.
AveragePowerUpdated == last_call' = Called("refresh", "r1", NONE)

\* The current sample is older than the front of the queue, or later with a
\* lower energy counter.
SampleRejected ==
    /\ CurrSample'.duration # Head(History).duration
    /\ \/ CurrSample'.duration < Head(History).duration
       \/ CurrSample'.energy_counter < Head(History).energy_counter

\* The queue lost its front and took the current sample at its back.
HistoryAdvanced == History' = Append(Tail(History), CurrSample')

\* C39 (as the code has it): the history of a rail is a queue of
\* power_sample_count samples.  updateAveragePower yields NaN and leaves the
\* queue as it was when the current sample's duration is lower than the front's,
\* or is higher while its energy counter is lower; in every other case, equal
\* durations included whatever the energy counters, it drops the front and
\* appends the current sample, equal durations yielding NaN.
C39_HistoryAdvancesUnlessRejected ==
    [][AveragePowerUpdated =>
          /\ Len(History') = env.power_rail_info_map["r1"].power_sample_count
          /\ IF SampleRejected
             THEN /\ History' = History
                  /\ isnan(power_status_map_'["r1"].last_updated_avg_power)
             ELSE /\ HistoryAdvanced
                  /\ CurrSample'.duration = Head(History).duration =>
                         isnan(power_status_map_'["r1"].last_updated_avg_power)]_vars

\* C39 witness: a sample older than the front of a queue of MaxSamples samples,
\* which earlier samples have advanced, was refused.
C39_OlderSampleRefused ==
    /\ last_call = Called("refresh", "r1", NONE)
    /\ Len(History) = MaxSamples
    /\ History[1] # History[Len(History)]
    /\ CurrSample.duration < Head(History).duration
    /\ CurrSample # History[Len(History)]
    /\ isnan(power_status_map_["r1"].last_updated_avg_power)

\* C39 (as stated): updateAveragePower leaves the queue as it was whenever the
\* current sample's duration or energy counter is lower than the front's, and
\* advances it in every other case.
C39_HistoryKeptWhenAnyCounterLower ==
    [][AveragePowerUpdated =>
          IF \/ CurrSample'.duration < Head(History).duration
             \/ CurrSample'.energy_counter < Head(History).energy_counter
          THEN /\ History' = History
               /\ isnan(power_status_map_'["r1"].last_updated_avg_power)
          ELSE HistoryAdvanced]_vars

====
